---- MODULE Spec2Model ----
(***************************************************************************)
(* Physical memory allocator core of the auton kernel: buddy frame        *)
(* allocator with per-hart caches (memory/frame_allocator.rs), free-lists *)
(* index (memory/free_lists.rs), intrusive lists (collections/), and the  *)
(* synchronisation primitives (sync/spinlock.rs, sync/once_lock.rs).      *)
(*                                                                         *)
(* Frame pointers are modelled as indices into the frame array, physical  *)
(* addresses as byte addresses.  Kernel panics halt the machine: the      *)
(* variable panicked becomes TRUE and no hart takes another step.  Debug  *)
(* assertions are compiled out (release profile); an unsigned underflow   *)
(* either panics (overflow checks on) or wraps (overflow checks off); a   *)
(* wrapped usize n - 2^64 is represented by the negative integer n.       *)
(***************************************************************************)
EXTENDS Integers, Sequences, FiniteSets, TLC

\* ------------------------------------------------------------------ bounds
\* log2 of the number of RAM frames in the small configurations
RamOrder == 3
\* log2 of the number of RAM frames in the configuration that fills a cache
BigRamOrder == 6
\* number of harts that call into the allocator concurrently
NumHarts == 2
\* number of harts exercising a Spinlock / a OnceLock
NumLockHarts == 3
\* number of writes through a SpinlockGuard that are told apart
MaxWrites == 3
\* number of distinct values offered to a OnceLock
NumVals == 2
\* number of allocator calls (alloc, alloc_slab, dealloc) the harts start
MaxCalls == 6
\* the single hart that fills its cache: pages it allocates, then frees
SeqAllocs == 17
SeqFrees == 17

\* --------------------------------------------------------------- constants
BASE_SIZE == 4096
DEFAULT_CACHE_SIZE == 16
QUARTERING_DENOMINATOR == 4
NIL == -1

Harts == 0 .. (NumHarts - 1)
LockHarts == 0 .. (NumLockHarts - 1)
Vals == 1 .. NumVals

\* ram.start handed over by the device tree (aligned to every block size used)
RamStart == 256 * BASE_SIZE

\* --------------------------------------------------------- integer helpers
RECURSIVE Pow2(_)
Pow2(n) == IF n = 0 THEN 1 ELSE 2 * Pow2(n - 1)

\* usize::ilog2 (argument > 0)
RECURSIVE ilog2(_)
ilog2(n) == IF n <= 1 THEN 0 ELSE 1 + ilog2(n \div 2)

\* usize::div_ceil
div_ceil(a, b) == (a + b - 1) \div b

\* usize::next_power_of_two
RECURSIVE NextPow2From(_, _)
NextPow2From(n, p) == IF p >= n THEN p ELSE NextPow2From(n, 2 * p)
next_power_of_two(n) == NextPow2From(n, 1)

\* u64::trailing_zeros (argument > 0)
RECURSIVE trailing_zeros(_)
trailing_zeros(b) == IF b % 2 = 1 THEN 0 ELSE 1 + trailing_zeros(b \div 2)

\* a ^ off for off a power of two: flips the single bit off of a
XorBit(a, off) == IF (a \div off) % 2 = 0 THEN a + off ELSE a - off

\* ------------------------------------------------------------------ Bitmap
TestBit(b, k) == (b \div Pow2(k)) % 2 = 1
BitmapSet(b, order) == IF TestBit(b, order) THEN b ELSE b + Pow2(order)
BitmapClear(b, order) == IF TestBit(b, order) THEN b - Pow2(order) ELSE b
\* Some(order) is the order, None is NIL
find_first_set_from(b, requested_order) ==
    LET suitable_blocks == b - (b % Pow2(requested_order))
    IN  IF suitable_blocks = 0 THEN NIL ELSE trailing_zeros(suitable_blocks)

\* ------------------------------------------------------------ memory map
\* ram.contains(address)
RamContains(map, address) ==
    address >= map.ram_start /\ address < map.ram_start + map.ram_size
num_frames(map) == map.ram_size \div BASE_SIZE
frame_idx_from_address(map, address) == (address - map.ram_start) \div BASE_SIZE
frame_ref_to_address(map, f) == map.ram_start + f * BASE_SIZE
Orders(map) == ilog2(num_frames(map)) + 1

\* ------------------------------------------------------------------- Frame
FrameNew == [next |-> NIL, prev |-> NIL, order |-> 0, state |-> "Free"]
is_free(frame) == frame.state = "Free"

\* ------------------------------------------------- DoublyLinkedList<Frame>
ListNew == [head |-> NIL, tail |-> NIL, len |-> 0]
list_is_empty(l) == l.len = 0

\* each list operation maps [frames, list] to [frames, list, panic (, node)]
dl_push_front(fr, l, node) ==
    IF fr[node].next # NIL \/ fr[node].prev # NIL
    THEN [frames |-> fr, list |-> l, panic |-> TRUE]
    ELSE IF l.head # NIL
         THEN [frames |-> [fr EXCEPT ![node].next = l.head, ![l.head].prev = node],
               list |-> [l EXCEPT !.head = node, !.len = @ + 1],
               panic |-> FALSE]
         ELSE [frames |-> fr,
               list |-> [l EXCEPT !.head = node, !.tail = node, !.len = @ + 1],
               panic |-> FALSE]

dl_pop_front(fr, l) ==
    IF l.head = NIL
    THEN [frames |-> fr, list |-> l, node |-> NIL]
    ELSE LET old_head == l.head
             new_head == fr[old_head].next
             fr1 == IF new_head # NIL THEN [fr EXCEPT ![new_head].prev = NIL] ELSE fr
         IN  [frames |-> [fr1 EXCEPT ![old_head].next = NIL, ![old_head].prev = NIL],
              list |-> [head |-> new_head,
                        tail |-> IF new_head = NIL THEN NIL ELSE l.tail,
                        len |-> l.len - 1],
              node |-> old_head]

dl_pop_back(fr, l) ==
    IF l.tail = NIL
    THEN [frames |-> fr, list |-> l, node |-> NIL]
    ELSE LET old_tail == l.tail
             new_tail == fr[old_tail].prev
             fr1 == IF new_tail # NIL THEN [fr EXCEPT ![new_tail].next = NIL] ELSE fr
         IN  [frames |-> [fr1 EXCEPT ![old_tail].next = NIL, ![old_tail].prev = NIL],
              list |-> [head |-> IF new_tail = NIL THEN NIL ELSE l.head,
                        tail |-> new_tail,
                        len |-> l.len - 1],
              node |-> old_tail]

dl_push_back(fr, l, node) ==
    IF fr[node].next # NIL \/ fr[node].prev # NIL
    THEN [frames |-> fr, list |-> l, panic |-> TRUE]
    ELSE IF l.tail # NIL
         THEN [frames |-> [fr EXCEPT ![node].prev = l.tail, ![l.tail].next = node],
               list |-> [l EXCEPT !.tail = node, !.len = @ + 1],
               panic |-> FALSE]
         ELSE [frames |-> fr,
               list |-> [l EXCEPT !.head = node, !.tail = node, !.len = @ + 1],
               panic |-> FALSE]

\* CursorMut::insert_before: current is the cursor's node, NIL when dangling
dl_insert_before(fr, l, current, new_node) ==
    IF fr[new_node].next # NIL \/ fr[new_node].prev # NIL
    THEN [frames |-> fr, list |-> l, panic |-> TRUE]
    ELSE IF current = NIL THEN dl_push_back(fr, l, new_node)
    ELSE IF fr[current].prev # NIL
         THEN [frames |-> [fr EXCEPT ![new_node].next = current,
                                     ![new_node].prev = fr[current].prev,
                                     ![current].prev = new_node,
                                     ![fr[current].prev].next = new_node],
               list |-> [l EXCEPT !.len = @ + 1],
               panic |-> FALSE]
         ELSE [frames |-> [fr EXCEPT ![new_node].next = current,
                                     ![new_node].prev = NIL,
                                     ![current].prev = new_node],
               list |-> [l EXCEPT !.head = new_node, !.len = @ + 1],
               panic |-> FALSE]

\* CursorMut::insert_after
dl_insert_after(fr, l, current, new_node) ==
    IF fr[new_node].next # NIL \/ fr[new_node].prev # NIL
    THEN [frames |-> fr, list |-> l, panic |-> TRUE]
    ELSE IF current = NIL THEN dl_push_front(fr, l, new_node)
    ELSE IF fr[current].next # NIL
         THEN [frames |-> [fr EXCEPT ![new_node].next = fr[current].next,
                                     ![new_node].prev = current,
                                     ![current].next = new_node,
                                     ![fr[current].next].prev = new_node],
               list |-> [l EXCEPT !.len = @ + 1],
               panic |-> FALSE]
         ELSE [frames |-> [fr EXCEPT ![new_node].next = NIL,
                                     ![new_node].prev = current,
                                     ![current].next = new_node],
               list |-> [l EXCEPT !.tail = new_node, !.len = @ + 1],
               panic |-> FALSE]

\* remove(node): unsplice through the node's own links, without walking
dl_remove(fr, l, node) ==
    LET prev == fr[node].prev
        next == fr[node].next
        fr1 == IF prev # NIL THEN [fr EXCEPT ![prev].next = next] ELSE fr
        fr2 == IF next # NIL THEN [fr1 EXCEPT ![next].prev = prev] ELSE fr1
    IN  [frames |-> [fr2 EXCEPT ![node].next = NIL, ![node].prev = NIL],
         list |-> [head |-> IF prev = NIL THEN next ELSE l.head,
                   tail |-> IF next = NIL THEN prev ELSE l.tail,
                   len |-> l.len - 1]]

\* the frames reached from the head through next links
RECURSIVE Walk(_, _, _, _)
Walk(fr, node, seen, fuel) ==
    IF node = NIL \/ node \in seen \/ fuel = 0 THEN seen
    ELSE Walk(fr, fr[node].next, seen \cup {node}, fuel - 1)
Members(fr, l) == Walk(fr, l.head, {}, Cardinality(DOMAIN fr))

\* ------------------------------------------------- SinglyLinkedList<Frame>
\* push_front with its debug_assert!, which only a build with debug
\* assertions carries; returns [frames, cache, panic]
sl_push_front_asserting(fr, c, node, debug_assertions) ==
    IF debug_assertions /\ fr[node].next # NIL
    THEN [frames |-> fr, cache |-> c, panic |-> TRUE]
    ELSE [frames |-> [fr EXCEPT ![node].next = c.head],
          cache |-> [c EXCEPT !.head = node, !.len = @ + 1],
          panic |-> FALSE]

sl_push_front(fr, c, node) ==
    [frames |-> [fr EXCEPT ![node].next = c.head],
     cache |-> [c EXCEPT !.head = node, !.len = @ + 1]]

sl_pop_front(fr, c) ==
    IF c.head = NIL
    THEN [frames |-> fr, cache |-> c, node |-> NIL]
    ELSE [frames |-> [fr EXCEPT ![c.head].next = NIL],
          cache |-> [c EXCEPT !.head = fr[c.head].next, !.len = @ - 1],
          node |-> c.head]

\* --------------------------------------------------- HartCache, Quartering
HartCacheNew(target_size) == [head |-> NIL, len |-> 0, target_size |-> target_size]
Max2(a, b) == IF a >= b THEN a ELSE b
Min2(a, b) == IF a <= b THEN a ELSE b
cache_is_empty(c) == c.len = 0
cache_is_full(c) == c.len >= c.target_size
quartering_refill_amount(target_size, current_len) ==
    Max2(target_size \div QUARTERING_DENOMINATOR, 1)
quartering_drain_amount(target_size, current_len) ==
    Min2(target_size \div QUARTERING_DENOMINATOR, current_len)
CacheMembers(fr, c) == Walk(fr, c.head, {}, Cardinality(DOMAIN fr))

\* ------------------------------------------------ HartCache<Slot, Greedy>
MIN_HART_CACHE_TARGET == 8
MAX_HART_CACHE_TARGET == 128
EMPTY_SLABS_CAP == 4
SIZE_CLASSES == <<8, 16, 32, 64, 128, 256, 512, 1024, 2048>>
NUM_CACHES == Len(SIZE_CLASSES)
\* a size class is named by its index into SlubAllocator.size_classes
Classes == 1 .. NUM_CACHES

greedy_refill_amount(target_size, current_len) ==
    IF target_size >= current_len THEN target_size - current_len ELSE 0
greedy_drain_amount(target_size, current_len) ==
    IF current_len > 2 * target_size THEN current_len \div 2 ELSE 0

\* SizeClassManager::new: object_size, slots_per_slab and the cache target
object_size(c) == SIZE_CLASSES[c]
slots_per_slab(c) == BASE_SIZE \div object_size(c)
clamp(x, lo, hi) == Max2(lo, Min2(x, hi))
hart_cache_target(c) ==
    clamp(slots_per_slab(c), MIN_HART_CACHE_TARGET, MAX_HART_CACHE_TARGET)

\* SlubAllocator::find_size_class: Some(class) is its index, None is NIL
find_size_class(size) ==
    LET fits == {c \in Classes : object_size(c) >= size} IN
    IF fits = {} THEN NIL ELSE CHOOSE c \in fits : \A d \in fits : c <= d

\* the slab info of a frame: owning size class, chain of free slots (head
\* first, each slot named by its address), number of slots handed out
SlabInfoNew(c, chain) == [cache |-> c, next_slot |-> chain, in_use_count |-> 0]
\* what the global allocator last did
KRetNew == [op |-> "none", hart |-> NIL, size |-> 0, align |-> 0, ptr |-> NIL,
            class |-> NIL, ready |-> FALSE, oom |-> FALSE]


\* ------------------------------------------------------------------ state
VARIABLES
    mm,           \* PhysicalMemoryMap: ram_start, ram_size, free_start, free_size
    frames,       \* the Frame array in frame_pool, indexed by frame number
    lists,        \* FreeLists.lists: one DoublyLinkedList<Frame> per order
    bitmap,       \* FreeLists.bitmap
    locked,       \* the Spinlock around FreeLists
    hart_caches,  \* FrameAllocator.hart_caches
    pc,           \* per hart: position inside alloc / alloc_slab / dealloc
    loc,          \* per hart: the locals of the running call
    held,         \* addresses returned by alloc and not yet passed to dealloc
    slabs,        \* frames handed to the slab layer by alloc_slab
    budget,       \* number of allocator calls the harts may still start
    panicked,     \* a panic! / failed assert! halted the kernel
    guards,       \* per hart: number of SpinlockGuards it owns
    lpc,          \* per hart: position inside Spinlock::lock
    inner,        \* Spinlock.inner of a Spinlock<usize>
    owners,       \* per spinlock of the allocator: the hart owning its guard
    lock_todo,    \* per hart: the lock / unlock calls left in its lock section
    initialized,  \* OnceLock.initialized
    once_inner,   \* OnceLock.inner: NIL is None, v is Some(v)
    opc,          \* per hart: position inside OnceLock::get / get_or_init / set
    oloc,         \* per hart: argument and result of its OnceLock call
    slub_ready,   \* KernelAllocator.0 holds the SlubAllocator
    slab_info,    \* per frame: the slab info of a frame in state Slab
    partial_slabs,\* per size class: SizeClassManager.partial_slabs
    empty_slabs,  \* per size class: SizeClassManager.empty_slabs
    slot_caches,  \* per size class and hart: SizeClassManager.hart_caches
    objs,         \* [ptr, size, align] returned by the global alloc, not yet freed
    freed,        \* [ptr, hart]: slots a hart deallocated, not handed out since
    lock_log,     \* pairs <<held, acquired>>: a lock taken while holding another
    kret          \* the last call of the global allocator and what it returned

allocVars == <<mm, frames, lists, bitmap, locked, hart_caches, pc, loc, held,
               slabs, budget, panicked>>
lockVars == <<guards, lpc, inner, owners, lock_todo>>
onceVars == <<initialized, once_inner, opc, oloc>>
slabVars == <<slub_ready, slab_info, partial_slabs, empty_slabs, slot_caches,
              objs, freed, lock_log, kret>>

\* the part of the state the free-lists lock protects, plus the frame array
Mem == [frames |-> frames, lists |-> lists, bitmap |-> bitmap,
        panic |-> FALSE, underflow |-> FALSE]

\* ---------------------------------------------------------------- FreeLists
push_frame(M, frame) ==
    LET order == M.frames[frame].order IN
    IF order \notin DOMAIN M.lists THEN [M EXCEPT !.panic = TRUE]
    ELSE LET r == dl_push_front(M.frames, M.lists[order], frame) IN
         IF r.panic THEN [M EXCEPT !.panic = TRUE]
         ELSE [M EXCEPT !.frames = r.frames,
                        !.lists = [@ EXCEPT ![order] = r.list],
                        !.bitmap = BitmapSet(@, order)]

\* returns [M, node]
pop_frame(M, order) ==
    LET r == dl_pop_front(M.frames, M.lists[order]) IN
    IF r.node = NIL THEN [M |-> M, node |-> NIL]
    ELSE [M |-> [M EXCEPT !.frames = r.frames,
                          !.lists = [@ EXCEPT ![order] = r.list],
                          !.bitmap = IF list_is_empty(r.list)
                                     THEN BitmapClear(@, order) ELSE @,
                          !.underflow = @ \/ M.lists[order].len = 0],
          node |-> r.node]

remove_frame(M, frame) ==
    LET order == M.frames[frame].order IN
    IF order \notin DOMAIN M.lists THEN [M EXCEPT !.panic = TRUE]
    ELSE LET r == dl_remove(M.frames, M.lists[order], frame) IN
         [M EXCEPT !.frames = r.frames,
                   !.lists = [@ EXCEPT ![order] = r.list],
                   !.bitmap = IF list_is_empty(r.list)
                              THEN BitmapClear(@, order) ELSE @,
                   !.underflow = @ \/ M.lists[order].len = 0]

find_first_free_from(M, from_order) == find_first_set_from(M.bitmap, from_order)

\* ----------------------------------------------------------- FrameAllocator
order_from_size(size) ==
    IF size = 0 THEN 0
    ELSE ilog2(next_power_of_two(div_ceil(size, BASE_SIZE)))

\* the split loop of prepare_block: current_order runs from found_order - 1
\* down to requested_order
RECURSIVE SplitDown(_, _, _, _)
SplitDown(M, block_to_split, current_order, requested_order) ==
    IF current_order < requested_order \/ M.panic THEN M
    ELSE LET block_addr == frame_ref_to_address(mm, block_to_split)
             buddy_offset == Pow2(current_order) * BASE_SIZE
             buddy_addr == block_addr + buddy_offset
         IN  IF ~RamContains(mm, buddy_addr) THEN [M EXCEPT !.panic = TRUE]
             ELSE LET buddy == frame_idx_from_address(mm, buddy_addr)
                      M1 == [M EXCEPT !.frames[block_to_split].order = current_order,
                                      !.frames[buddy].order = current_order]
                  IN  SplitDown(push_frame(M1, buddy), block_to_split,
                                current_order - 1, requested_order)

\* the body of prepare_block under the free-lists lock; returns [M, node]
prepare_block(M, requested_order) ==
    LET found_order == find_first_free_from(M, requested_order) IN
    IF found_order = NIL THEN [M |-> M, node |-> NIL]
    ELSE LET p == pop_frame(M, found_order) IN
         IF p.node = NIL THEN [M |-> M, node |-> NIL]
         ELSE [M |-> SplitDown(p.M, p.node, found_order - 1, requested_order),
               node |-> p.node]

\* one iteration of the coalescing loop of free_to_global; cur is
\* current_frame_ptr, order is the local current_order.
\* Returns [M, cur, order, done]
BuddyOf(cur, order) ==
    XorBit(frame_ref_to_address(mm, cur), Pow2(order) * BASE_SIZE)

coalesce_step(M, cur, order) ==
    IF ~(order < Orders(mm) - 1)
    THEN [M |-> M, cur |-> cur, order |-> order, done |-> TRUE]
    ELSE LET current_addr == frame_ref_to_address(mm, cur)
             buddy_addr == BuddyOf(cur, order)
         IN  IF ~RamContains(mm, buddy_addr)
             THEN [M |-> [M EXCEPT !.panic = TRUE], cur |-> cur, order |-> order,
                   done |-> TRUE]
             ELSE LET buddy == frame_idx_from_address(mm, buddy_addr) IN
                  IF is_free(M.frames[buddy]) /\ M.frames[buddy].order = order
                  THEN LET M1 == remove_frame(M, buddy)
                           head == IF buddy_addr < current_addr THEN buddy ELSE cur
                       IN  [M |-> [M1 EXCEPT !.frames[head].order = order + 1],
                            cur |-> head, order |-> order + 1, done |-> FALSE]
                  ELSE [M |-> M, cur |-> cur, order |-> order, done |-> TRUE]

\* free_to_global under one hold of the free-lists lock: the whole loop and
\* the final push_frame
RECURSIVE CoalesceLoop(_, _, _)
CoalesceLoop(M, cur, order) ==
    LET r == coalesce_step(M, cur, order) IN
    IF ~r.done THEN CoalesceLoop(r.M, r.cur, r.order)
    ELSE IF r.M.panic THEN r.M ELSE push_frame(r.M, r.cur)
free_to_global(M, frame) == CoalesceLoop(M, frame, M.frames[frame].order)

\* FrameAllocator::init: the greedy distribution of free_memory
RECURSIVE InitGreedy(_, _, _, _)
\* the distribution that leaves the order of each block head at 0
InitGreedy_order_unset(M, map, current_free_address, frames_left) ==
    IF frames_left = 0 THEN M
    ELSE InitGreedy(push_frame(M, (current_free_address - map.ram_start)
                                      \div BASE_SIZE),
                    map,
                    current_free_address + Pow2(ilog2(frames_left)) * BASE_SIZE,
                    frames_left - Pow2(ilog2(frames_left)))

InitGreedy(M, map, current_free_address, frames_left) ==
    IF frames_left = 0 THEN M
    ELSE LET largest_block_order == ilog2(frames_left)
             largest_block_frames == Pow2(largest_block_order)
             head_frame_idx == (current_free_address - map.ram_start) \div BASE_SIZE
             M1 == [M EXCEPT !.frames[head_frame_idx].order = largest_block_order]
         IN  InitGreedy(push_frame(M1, head_frame_idx), map,
                        current_free_address + largest_block_frames * BASE_SIZE,
                        frames_left - largest_block_frames)

FrameAllocatorInit(map) ==
    InitGreedy([frames |-> [i \in 0 .. (num_frames(map) - 1) |-> FrameNew],
                lists |-> [k \in 0 .. (Orders(map) - 1) |-> ListNew],
                bitmap |-> 0, panic |-> FALSE, underflow |-> FALSE],
               map, map.free_start, map.free_size \div BASE_SIZE)

\* PhysicalMemoryMap for a RAM of 2^ram_order frames whose first
\* reserved frames (kernel, frame pool, allocator metadata) are not free
MemoryMap(ram_order, reserved) ==
    [ram_start |-> RamStart,
     ram_size |-> Pow2(ram_order) * BASE_SIZE,
     free_start |-> RamStart + reserved * BASE_SIZE,
     free_size |-> (Pow2(ram_order) - reserved) * BASE_SIZE]

LocNew == [op |-> "none", cur |-> NIL, order |-> 0, refill |-> 0, drain |-> 0,
           pending |-> NIL, ptr |-> NIL, size |-> 0]

\* locals of a OnceLock call: the operation, its argument, the last value
\* loaded from initialized, and what the call returned
OLocNew == [op |-> "none", arg |-> NIL, seen |-> FALSE, ret |-> "pending"]

\* the spinlocks of the allocator: FrameAllocator.free_lists, and per size
\* class partial_slabs and empty_slabs, and per slab the lock of its slab info
NumLockClasses == 1
NumLockSlabs == 2
FREE_LISTS == <<"free_lists", 0>>
PARTIAL_SLABS(class) == <<"partial_slabs", class>>
EMPTY_SLABS(class) == <<"empty_slabs", class>>
SLAB_INFO(slab) == <<"slab_info", slab>>
LockClasses == 1 .. NumLockClasses
LockSlabs == 0 .. (NumLockSlabs - 1)
LockNames == {FREE_LISTS} \cup {PARTIAL_SLABS(c) : c \in LockClasses}
             \cup {EMPTY_SLABS(c) : c \in LockClasses}
             \cup {SLAB_INFO(f) : f \in LockSlabs}

InitAlloc(map, calls) ==
    LET M == FrameAllocatorInit(map) IN
    /\ mm = map
    /\ frames = M.frames
    /\ lists = M.lists
    /\ bitmap = M.bitmap
    /\ locked = FALSE
    /\ hart_caches = [h \in Harts |-> HartCacheNew(DEFAULT_CACHE_SIZE)]
    /\ pc = [h \in Harts |-> "idle"]
    /\ loc = [h \in Harts |-> LocNew]
    /\ held = {}
    /\ slabs = {}
    /\ budget = calls
    /\ panicked = FALSE
    /\ guards = [h \in LockHarts |-> 0]
    /\ lpc = [h \in LockHarts |-> "idle"]
    /\ inner = 0
    /\ owners = [l \in LockNames |-> NIL]
    /\ lock_todo = [h \in Harts |-> <<>>]
    /\ initialized = FALSE
    /\ once_inner = NIL
    /\ opc = [h \in LockHarts |-> "idle"]
    /\ oloc = [h \in LockHarts |-> OLocNew]
    /\ slub_ready = FALSE
    /\ slab_info = [f \in DOMAIN M.frames |-> SlabInfoNew(NIL, <<>>)]
    /\ partial_slabs = [c \in Classes |-> ListNew]
    /\ empty_slabs = [c \in Classes |-> ListNew]
    /\ slot_caches = [c \in Classes |-> [h \in Harts |-> <<>>]]
    /\ objs = {}
    /\ freed = {}
    /\ lock_log = {}
    /\ kret = KRetNew

\* ------------------------------------------------------------ hart steps
Halt == /\ panicked' = TRUE
        /\ UNCHANGED <<mm, frames, lists, bitmap, locked, hart_caches, pc, loc,
                       held, slabs>>
        /\ UNCHANGED <<lockVars, onceVars, slabVars>>

\* a hart enters the allocator
Call == budget > 0 /\ budget' = budget - 1

Upd(M, caches, pcs, locs, heldv, slabsv, lockedv) ==
    /\ frames' = M.frames
    /\ lists' = M.lists
    /\ bitmap' = M.bitmap
    /\ hart_caches' = caches
    /\ pc' = pcs
    /\ loc' = locs
    /\ held' = heldv
    /\ slabs' = slabsv
    /\ locked' = lockedv
    /\ panicked' = FALSE
    /\ mm' = mm
    /\ UNCHANGED <<lockVars, onceVars, slabVars>>

\* a failed assert! / panic! halts; an underflow halts or wraps
Outcome(M, caches, pcs, locs, heldv, slabsv, lockedv) ==
    \/ (M.panic \/ M.underflow) /\ Halt
    \/ ~M.panic /\ Upd(M, caches, pcs, locs, heldv, slabsv, lockedv)

\* get_from_cache whose None makes alloc return None instead of panicking
Deliver_null_on_oom(h, op, M, cache, node) ==
    IF node = NIL
    THEN Outcome(M, [hart_caches EXCEPT ![h] = cache],
                 [pc EXCEPT ![h] = "idle"], [loc EXCEPT ![h] = LocNew],
                 held, slabs, locked)
    ELSE Outcome(M, [hart_caches EXCEPT ![h] = cache],
                 [pc EXCEPT ![h] = IF op = "alloc" THEN "finalize" ELSE "convert"],
                 [loc EXCEPT ![h] = [LocNew EXCEPT !.op = op, !.cur = node]],
                 held, slabs, locked)

\* what the callers of get_from_cache do with the frame of its final
\* cache.pop(): alloc finalizes it or panics, alloc_slab hands it on
Deliver(h, op, M, cache, node) ==
    IF op = "alloc"
    THEN IF node = NIL THEN Halt
         ELSE Outcome(M, [hart_caches EXCEPT ![h] = cache],
                      [pc EXCEPT ![h] = "finalize"],
                      [loc EXCEPT ![h] = [LocNew EXCEPT !.op = op, !.cur = node]],
                      held, slabs, locked)
    ELSE IF node = NIL
         THEN Outcome(M, [hart_caches EXCEPT ![h] = cache],
                      [pc EXCEPT ![h] = "idle"], [loc EXCEPT ![h] = LocNew],
                      held, slabs, locked)
         ELSE Outcome(M, [hart_caches EXCEPT ![h] = cache],
                      [pc EXCEPT ![h] = "convert"],
                      [loc EXCEPT ![h] = [LocNew EXCEPT !.op = op, !.cur = node]],
                      held, slabs, locked)

\* get_from_cache that refills whatever the cache holds
get_from_cache_always_refills(h, op) ==
    Upd(Mem, hart_caches, [pc EXCEPT ![h] = "refill"],
        [loc EXCEPT ![h] = [LocNew EXCEPT !.op = op,
            !.refill = quartering_refill_amount(hart_caches[h].target_size,
                                                hart_caches[h].len)]],
        held, slabs, locked)

\* get_from_cache up to the refill loop
get_from_cache(h, op) ==
    LET cache == hart_caches[h] IN
    IF ~cache_is_empty(cache)
    THEN LET r == sl_pop_front(frames, cache) IN
         Deliver(h, op, [Mem EXCEPT !.frames = r.frames], r.cache, r.node)
    ELSE Upd(Mem, hart_caches, [pc EXCEPT ![h] = "refill"],
             [loc EXCEPT ![h] = [LocNew EXCEPT !.op = op,
                 !.refill = quartering_refill_amount(cache.target_size, cache.len)]],
             held, slabs, locked)

\* NonNull::<u8>::dangling(): the alignment of u8, taken as an address
DANGLING == 1

\* alloc that turns away an alignment of BASE_SIZE as well
alloc_early_return_above_or_equal(size, align) ==
    IF align >= BASE_SIZE THEN [returns |-> TRUE, ptr |-> NIL]
    ELSE IF size = 0 THEN [returns |-> TRUE, ptr |-> 1]
    ELSE [returns |-> FALSE, ptr |-> NIL]

\* the returns of alloc ahead of any access to the allocator's state:
\* None (ptr NIL) for an alignment above BASE_SIZE, the dangling sentinel
\* for size 0; returns is FALSE when alloc goes on
alloc_early_return(size, align) ==
    IF align > BASE_SIZE THEN [returns |-> TRUE, ptr |-> NIL]
    ELSE IF size = 0 THEN [returns |-> TRUE, ptr |-> DANGLING]
    ELSE [returns |-> FALSE, ptr |-> NIL]

\* FrameAllocator::alloc(layout) up to the first access of shared state
Alloc(h, size, align) ==
    /\ ~panicked /\ pc[h] = "idle" /\ Call
    /\ IF alloc_early_return(size, align).returns
       THEN UNCHANGED <<mm, frames, lists, bitmap, locked, hart_caches, pc, loc,
                        held, slabs, panicked, lockVars, onceVars, slabVars>>
       ELSE IF ~(size < mm.free_size) THEN Halt
       ELSE LET order == order_from_size(size) IN
            IF order = 0 THEN get_from_cache(h, "alloc")
            ELSE Upd(Mem, hart_caches, [pc EXCEPT ![h] = "prepare"],
                     [loc EXCEPT ![h] = [LocNew EXCEPT !.op = "alloc", !.order = order]],
                     held, slabs, locked)

\* FrameAllocator::alloc_slab
AllocSlab(h) ==
    /\ ~panicked /\ pc[h] = "idle" /\ Call
    /\ get_from_cache(h, "slab")

\* one iteration of the refill loop of get_from_cache (prepare_block takes
\* and releases the free-lists lock), and after the last one the final pop
RefillStep(h) ==
    /\ UNCHANGED budget
    /\ ~panicked /\ pc[h] = "refill" /\ ~locked
    /\ LET r == prepare_block(Mem, 0) IN
       IF r.node # NIL
       THEN LET p == sl_push_front(r.M.frames, hart_caches[h], r.node)
                M1 == [r.M EXCEPT !.frames = p.frames]
            IN  IF loc[h].refill - 1 > 0
                THEN Outcome(M1, [hart_caches EXCEPT ![h] = p.cache], pc,
                             [loc EXCEPT ![h].refill = @ - 1], held, slabs, locked)
                ELSE LET q == sl_pop_front(M1.frames, p.cache) IN
                     Deliver(h, loc[h].op, [M1 EXCEPT !.frames = q.frames],
                             q.cache, q.node)
       ELSE LET q == sl_pop_front(r.M.frames, hart_caches[h]) IN
            Deliver(h, loc[h].op, [r.M EXCEPT !.frames = q.frames], q.cache, q.node)

\* alloc with order > 0: prepare_block(order)
PrepareStep(h) ==
    /\ UNCHANGED budget
    /\ ~panicked /\ pc[h] = "prepare" /\ ~locked
    /\ LET r == prepare_block(Mem, loc[h].order) IN
       IF r.node = NIL THEN Halt
       ELSE Outcome(r.M, hart_caches, [pc EXCEPT ![h] = "finalize"],
                    [loc EXCEPT ![h].cur = r.node], held, slabs, locked)

finalize_frame_allocation(fr, frame) == [fr EXCEPT ![frame].state = "Allocated"]

FinalizeStep(h) ==
    /\ UNCHANGED budget
    /\ ~panicked /\ pc[h] = "finalize"
    /\ Upd([Mem EXCEPT !.frames = finalize_frame_allocation(frames, loc[h].cur)],
           hart_caches, [pc EXCEPT ![h] = "idle"], [loc EXCEPT ![h] = LocNew],
           held \cup {frame_ref_to_address(mm, loc[h].cur)}, slabs, locked)

\* Frame::convert_to_slab, called by create_new_slab on the frame of alloc_slab
convert_to_slab(fr, frame) == [fr EXCEPT ![frame].state = "Slab"]

ConvertStep(h) ==
    /\ UNCHANGED budget
    /\ ~panicked /\ pc[h] = "convert"
    /\ Upd([Mem EXCEPT !.frames = convert_to_slab(frames, loc[h].cur)],
           hart_caches, [pc EXCEPT ![h] = "idle"], [loc EXCEPT ![h] = LocNew],
           held, slabs \cup {loc[h].cur}, locked)

\* the drain loop of dealloc between two calls of free_to_global
DrainNext(h, M, cache, drain, pending, heldv, lockedv) ==
    IF drain = 0
    THEN LET p == sl_push_front(M.frames, cache, pending) IN
         Outcome([M EXCEPT !.frames = p.frames], [hart_caches EXCEPT ![h] = p.cache],
                 [pc EXCEPT ![h] = "idle"], [loc EXCEPT ![h] = LocNew],
                 heldv, slabs, lockedv)
    ELSE LET q == sl_pop_front(M.frames, cache) IN
         IF q.node = NIL THEN Halt
         ELSE Outcome([M EXCEPT !.frames = q.frames], [hart_caches EXCEPT ![h] = q.cache],
                      [pc EXCEPT ![h] = "ftg_lock"],
                      [loc EXCEPT ![h] = [LocNew EXCEPT !.op = "dealloc",
                          !.cur = q.node, !.order = q.frames[q.node].order,
                          !.drain = drain - 1, !.pending = pending]],
                      heldv, slabs, lockedv)

\* FrameAllocator::dealloc behind its checks: set_state(Free), then the
\* block goes to free_to_global or the page to the hart's cache
dealloc_frame(h, ptr) ==
    LET frame == frame_idx_from_address(mm, ptr)
        fr1 == [frames EXCEPT ![frame].state = "Free"]
        order == fr1[frame].order
        cache == hart_caches[h]
    IN  IF order > 0
        THEN Upd([Mem EXCEPT !.frames = fr1], hart_caches,
                 [pc EXCEPT ![h] = "ftg_lock"],
                 [loc EXCEPT ![h] = [LocNew EXCEPT !.op = "dealloc",
                     !.cur = frame, !.order = order]],
                 held \ {ptr}, slabs, locked)
        ELSE IF ~cache_is_full(cache)
        THEN LET p == sl_push_front(fr1, cache, frame) IN
             Upd([Mem EXCEPT !.frames = p.frames],
                 [hart_caches EXCEPT ![h] = p.cache], pc, loc,
                 held \ {ptr}, slabs, locked)
        ELSE DrainNext(h, [Mem EXCEPT !.frames = fr1], cache,
                       quartering_drain_amount(cache.target_size, cache.len),
                       frame, held \ {ptr}, locked)

\* FrameAllocator::dealloc(ptr, layout) with layout.size() > 0 of a pointer
\* that alloc returned, up to the acquisition of the free-lists lock by
\* free_to_global
DeallocStart(h, ptr) ==
    /\ ~panicked /\ pc[h] = "idle" /\ ptr \in held /\ Call
    /\ IF ~RamContains(mm, ptr) THEN Halt
       ELSE dealloc_frame(h, ptr)

\* a failed assert! of dealloc(ptr, layout): the hart stops inside the call
PanicIn(h, op, ptr, size) ==
    /\ panicked' = TRUE
    /\ pc' = [pc EXCEPT ![h] = "panic"]
    /\ loc' = [loc EXCEPT ![h] = [LocNew EXCEPT !.op = op, !.ptr = ptr,
                                                !.size = size]]
    /\ UNCHANGED <<mm, frames, lists, bitmap, locked, hart_caches, held, slabs>>
    /\ UNCHANGED <<lockVars, onceVars, slabVars>>

\* a call that returns without touching the allocator
ReturnAtOnce ==
    UNCHANGED <<mm, frames, lists, bitmap, locked, hart_caches, pc, loc,
                held, slabs, panicked, lockVars, onceVars, slabVars>>

\* dealloc that returns for an address outside ram instead of panicking
Dealloc_ignores_outside_ram(h, ptr, size, debug_assertions) ==
    /\ ~panicked /\ pc[h] = "idle" /\ Call
    /\ IF size = 0 \/ ~RamContains(mm, ptr) THEN ReturnAtOnce
       ELSE IF debug_assertions
               /\ is_free(frames[frame_idx_from_address(mm, ptr)])
       THEN PanicIn(h, "dealloc", ptr, size)
       ELSE dealloc_frame(h, ptr)

\* dealloc without the debug_assert! on the frame's state
Dealloc_without_state_check(h, ptr, size, debug_assertions) ==
    /\ ~panicked /\ pc[h] = "idle" /\ Call
    /\ IF size = 0 THEN ReturnAtOnce
       ELSE IF ~RamContains(mm, ptr) THEN PanicIn(h, "dealloc", ptr, size)
       ELSE dealloc_frame(h, ptr)

\* dealloc that runs its checks on a zero-size layout too
Dealloc_checks_zero_size(h, ptr, size, debug_assertions) ==
    /\ ~panicked /\ pc[h] = "idle" /\ Call
    /\ IF ~RamContains(mm, ptr) THEN PanicIn(h, "dealloc", ptr, size)
       ELSE IF debug_assertions
               /\ is_free(frames[frame_idx_from_address(mm, ptr)])
       THEN PanicIn(h, "dealloc", ptr, size)
       ELSE IF size = 0 THEN ReturnAtOnce
       ELSE dealloc_frame(h, ptr)

\* FrameAllocator::dealloc(ptr, layout) with any pointer and layout, up to
\* the acquisition of the free-lists lock by free_to_global.  The
\* debug_assert! on the frame's state is compiled in only when the build
\* has debug assertions
Dealloc(h, ptr, size, debug_assertions) ==
    /\ ~panicked /\ pc[h] = "idle" /\ Call
    /\ IF size = 0 THEN ReturnAtOnce
       ELSE IF ~RamContains(mm, ptr) THEN PanicIn(h, "dealloc", ptr, size)
       ELSE IF debug_assertions
               /\ is_free(frames[frame_idx_from_address(mm, ptr)])
       THEN PanicIn(h, "dealloc", ptr, size)
       ELSE dealloc_frame(h, ptr)

\* free_to_global: self.free_lists.lock()
FtgLock(h) ==
    /\ UNCHANGED budget
    /\ ~panicked /\ pc[h] = "ftg_lock" /\ ~locked
    /\ Upd(Mem, hart_caches, [pc EXCEPT ![h] = "ftg"], loc, held, slabs, TRUE)

\* free_to_global: one iteration of the coalescing loop; the iteration that
\* leaves the loop pushes the block, drops the guard and returns to dealloc
FtgStep(h) ==
    /\ UNCHANGED budget
    /\ ~panicked /\ pc[h] = "ftg"
    /\ LET r == coalesce_step(Mem, loc[h].cur, loc[h].order) IN
       IF ~r.done
       THEN Outcome(r.M, hart_caches, pc,
                    [loc EXCEPT ![h].cur = r.cur, ![h].order = r.order],
                    held, slabs, locked)
       ELSE LET M1 == IF r.M.panic THEN r.M ELSE push_frame(r.M, r.cur) IN
            IF loc[h].pending = NIL
            THEN Outcome(M1, hart_caches, [pc EXCEPT ![h] = "idle"],
                         [loc EXCEPT ![h] = LocNew], held, slabs, FALSE)
            ELSE IF M1.panic THEN Halt
            ELSE DrainNext(h, M1, hart_caches[h], loc[h].drain, loc[h].pending,
                           held, FALSE)

\* ---------------------------------------------------------- slab layer
\* A call into the slab layer runs on a record S: the free-lists state M,
\* the frame cache fcache of the calling hart, the slab infos, the two slab
\* lists and the calling hart's slot cache of one size class, the locks the
\* hart holds and every pair <<held, acquired>> it produced, the frames
\* converted to slabs, the evictions (slab and pointer handed to the frame
\* allocator) and whether refill_hart_cache returned Err.  A chain of
\* slots linked through Slot.next is the sequence of their addresses.
SlabState(h, c) ==
    [M |-> Mem, fcache |-> hart_caches[h], info |-> slab_info,
     partial |-> partial_slabs[c], empty |-> empty_slabs[c],
     cache |-> slot_caches[c][h], locks |-> {}, log |-> lock_log,
     slabsv |-> slabs, evicted |-> <<>>, err |-> FALSE]

\* Spinlock::lock by a hart that holds S.locks, and the drop of the guard
Acquire(S, l) ==
    [S EXCEPT !.log = @ \cup {<<x, l>> : x \in S.locks}, !.locks = @ \cup {l}]
Release(S, l) == [S EXCEPT !.locks = @ \ {l}]

\* size_of::<Frame>() and size_of::<DoublyLinkedList<Frame>>()
SIZE_OF_FRAME == 24
SIZE_OF_LIST == 24
align_up(addr, align) == ((addr + align - 1) \div align) * align
frame_pool_size(map) == align_up(num_frames(map) * SIZE_OF_FRAME, BASE_SIZE)
allocator_metadata_size(map) == align_up(Orders(map) * SIZE_OF_LIST, BASE_SIZE)
\* free_memory starts where the allocator metadata, placed behind the frame
\* pool, ends
frame_pool_start(map) ==
    map.free_start - allocator_metadata_size(map) - frame_pool_size(map)
\* the address held by a NonNull<Frame>: the descriptor in the frame pool
address_to_frame_ptr(map, address) ==
    frame_pool_start(map) + frame_idx_from_address(map, address) * SIZE_OF_FRAME

\* the result of a list or cache operation stored back into S
PutFrameCache(S, r) == [S EXCEPT !.M.frames = r.frames, !.fcache = r.cache]
PutPartial(S, r) == [S EXCEPT !.M.frames = r.frames, !.partial = r.list]
PutEmpty(S, r) == [S EXCEPT !.M.frames = r.frames, !.empty = r.list]
PutPanic(S, r) == [S EXCEPT !.M.panic = @ \/ r.panic]

\* cache.push(frame) and cache.pop() of the frame cache; pop returns [S, node]
PushFrameCache(S, node) ==
    PutFrameCache(S, sl_push_front(S.M.frames, S.fcache, node))
PoppedFrame(S, q) == [S |-> PutFrameCache(S, q), node |-> q.node]
PopFrameCache(S) == PoppedFrame(S, sl_pop_front(S.M.frames, S.fcache))

\* the refill loop of get_from_cache; every prepare_block takes the
\* free-lists lock; r is what prepare_block returned
RECURSIVE RefillFrames(_, _)
RefillPush(S, r, n) ==
    IF r.node = NIL THEN S
    ELSE RefillFrames(PushFrameCache([S EXCEPT !.M = r.M], r.node), n - 1)
RefillFrames(S, n) ==
    IF n = 0 THEN S
    ELSE RefillPush(Release(Acquire(S, "free_lists"), "free_lists"),
                    prepare_block(S.M, 0), n)

\* FrameAllocator::alloc_slab = get_from_cache, as one call; returns [S, node]
alloc_slab(S) ==
    PopFrameCache(IF ~cache_is_empty(S.fcache) THEN S
                  ELSE RefillFrames(S, quartering_refill_amount(
                           S.fcache.target_size, S.fcache.len)))

\* free_to_global(frame): lock, coalesce, push, unlock
FreeToGlobal(S, frame) ==
    Release([Acquire(S, "free_lists") EXCEPT !.M = free_to_global(@, frame)],
            "free_lists")

\* the trim loop of FrameAllocator::dealloc; q is what cache.pop() returned
RECURSIVE TrimFrames(_, _)
TrimOne(S, q, n) ==
    IF q.node = NIL THEN [S EXCEPT !.M.panic = TRUE]
    ELSE TrimFrames(FreeToGlobal(PutFrameCache(S, q), q.node), n - 1)
TrimFrames(S, n) ==
    IF n = 0 \/ S.M.panic THEN S
    ELSE TrimOne(S, sl_pop_front(S.M.frames, S.fcache), n)

\* FrameAllocator::dealloc behind set_state(Free)
PushUnlessPanic(S, frame) == IF S.M.panic THEN S ELSE PushFrameCache(S, frame)
FreedFrame(S, frame) ==
    IF S.M.frames[frame].order > 0 THEN FreeToGlobal(S, frame)
    ELSE PushUnlessPanic(IF ~cache_is_full(S.fcache) THEN S
                         ELSE TrimFrames(S, quartering_drain_amount(
                                  S.fcache.target_size, S.fcache.len)),
                         frame)

\* FrameAllocator::dealloc(ptr, BASE_SIZE_LAYOUT) as one call
frame_dealloc(S, ptr) ==
    IF ~RamContains(mm, ptr) THEN [S EXCEPT !.M.panic = TRUE]
    ELSE FreedFrame([S EXCEPT !.M.frames[frame_idx_from_address(mm, ptr)].state
                                  = "Free"],
                    frame_idx_from_address(mm, ptr))

\* the slots of a new slab at frame_addr, chained in address order
SlotChain(c, frame_addr) ==
    [i \in 1 .. slots_per_slab(c) |-> frame_addr + (i - 1) * object_size(c)]

\* SizeClassManager::create_new_slab on the [S, node] of alloc_slab;
\* returns [S, slab], slab = NIL is Err
NewSlab(g, c) ==
    IF g.node = NIL THEN [S |-> g.S, slab |-> NIL]
    ELSE [S |-> [g.S EXCEPT
                    !.M.frames = convert_to_slab(@, g.node),
                    !.info[g.node] = SlabInfoNew(c,
                        SlotChain(c, frame_ref_to_address(mm, g.node))),
                    !.slabsv = @ \cup {g.node}],
          slab |-> g.node]
create_new_slab(S, c) == NewSlab(alloc_slab(S), c)

\* partial_slabs.lock().pop_front() and empty_slabs.lock().pop_front();
\* return [S, slab]
PoppedPartial(S, p) ==
    [S |-> Release(PutPartial(S, p), "partial_slabs"), slab |-> p.node]
PopPartial(S) == PoppedPartial(S, dl_pop_front(S.M.frames, S.partial))
PoppedEmpty(S, p) ==
    [S |-> Release(PutEmpty(S, p), "empty_slabs"), slab |-> p.node]
PopEmpty(S) == PoppedEmpty(S, dl_pop_front(S.M.frames, S.empty))

\* the source of the next slab of refill_hart_cache: partial_slabs, else
\* empty_slabs, else a new slab; the guard of each list is a temporary of
\* its own condition
FromEmpty(r, c) == IF r.slab # NIL THEN r ELSE create_new_slab(r.S, c)
FromPartial(r, c) ==
    IF r.slab # NIL THEN r
    ELSE FromEmpty(PopEmpty(Acquire(r.S, "empty_slabs")), c)
next_slab(S, c) == FromPartial(PopPartial(Acquire(S, "partial_slabs")), c)

\* partial_slabs.lock().push_front(slab)
DoPushPartial(S, slab) ==
    PutPanic(PutPartial(S, dl_push_front(S.M.frames, S.partial, slab)),
             dl_push_front(S.M.frames, S.partial, slab))
PushPartial(S, slab) ==
    Release(DoPushPartial(Acquire(S, "partial_slabs"), slab), "partial_slabs")

\* the inner loop of refill_hart_cache on one slab; returns [S, amount]
RECURSIVE TakeSlots(_, _, _)
TakeSlots(S, slab, amount) ==
    IF amount = 0 \/ S.info[slab].next_slot = <<>>
    THEN [S |-> S, amount |-> amount]
    ELSE TakeSlots([S EXCEPT !.info[slab].next_slot = Tail(@),
                             !.cache = <<Head(S.info[slab].next_slot)>> \o @,
                             !.info[slab].in_use_count = @ + 1],
                   slab, amount - 1)

\* the outer loop of refill_hart_cache; n is the [S, slab] of next_slab, t
\* the [S, amount] of the inner loop; S.err is the Err of the function
RECURSIVE RefillSlots(_, _, _)
AfterTake(t, slab, c) ==
    RefillSlots(Release(IF t.S.info[slab].next_slot # <<>>
                        THEN PushPartial(t.S, slab) ELSE t.S, "slab_info"),
                c, t.amount)
RefillFromSlab(n, c, amount) ==
    IF n.slab = NIL THEN [n.S EXCEPT !.err = TRUE]
    ELSE AfterTake(TakeSlots(Acquire(n.S, "slab_info"), n.slab, amount), n.slab, c)
RefillSlots(S, c, amount_to_refill) ==
    IF amount_to_refill = 0 \/ S.M.panic THEN S
    ELSE RefillFromSlab(next_slab(S, c), c, amount_to_refill)

refill_hart_cache(S, c) ==
    RefillSlots(S, c, greedy_refill_amount(hart_cache_target(c), Len(S.cache)))

\* SizeClassManager::alloc; returns [S, ptr], ptr = NIL is None
PopSlot(S) == [S |-> [S EXCEPT !.cache = Tail(@)], ptr |-> Head(S.cache)]
AfterRefill(S) ==
    IF S.err \/ S.cache = <<>> THEN [S |-> S, ptr |-> NIL] ELSE PopSlot(S)
slab_alloc(S, c) ==
    IF S.cache # <<>> THEN PopSlot(S) ELSE AfterRefill(refill_hart_cache(S, c))

\* the closure of SizeClassManager::dealloc on one drained slot, from the
\* end: hand the oldest empty slab to the frame allocator ...
HandBack(S, slab, ptr) ==
    frame_dealloc([S EXCEPT !.evicted = Append(@, [slab |-> slab, ptr |-> ptr])],
                  ptr)
\* ... which is the slab empty_slabs.pop_back() returned in q, if any
EvictOldest(S, q) ==
    IF q.node = NIL THEN Release(S, "empty_slabs")
    ELSE HandBack(Release(PutEmpty(S, q), "empty_slabs"), q.node,
                  address_to_frame_ptr(mm, frame_ref_to_address(mm, q.node)))
Evict(S) ==
    IF S.empty.len >= EMPTY_SLABS_CAP
    THEN EvictOldest(S, dl_pop_back(S.M.frames, S.empty))
    ELSE Release(S, "empty_slabs")
\* the slab became empty: off partial_slabs, onto empty_slabs
DoPushEmpty(S, slab) ==
    PutPanic(PutEmpty(S, dl_push_front(S.M.frames, S.empty, slab)),
             dl_push_front(S.M.frames, S.empty, slab))
DoRemovePartial(S, slab) == PutPartial(S, dl_remove(S.M.frames, S.partial, slab))
NowEmpty(S, slab) ==
    Evict(DoPushEmpty(Acquire(Release(DoRemovePartial(
              Acquire(S, "partial_slabs"), slab), "partial_slabs"),
          "empty_slabs"), slab))
Relist(S, c, frame_ptr, was_full) ==
    IF was_full THEN PushPartial(S, frame_ptr)
    ELSE IF S.info[frame_ptr].in_use_count = 0 THEN NowEmpty(S, frame_ptr)
    ELSE S
\* the slot goes back onto the chain of its slab
ThreadSlot(S, slot_ptr, frame_ptr) ==
    [S EXCEPT !.info[frame_ptr].next_slot = <<slot_ptr>> \o @,
              !.info[frame_ptr].in_use_count = @ - 1,
              !.M.underflow = @ \/ S.info[frame_ptr].in_use_count = 0]
Returned(S, c, slot_ptr, frame_ptr) ==
    Relist(ThreadSlot(S, slot_ptr, frame_ptr), c, frame_ptr,
           S.info[frame_ptr].in_use_count = slots_per_slab(c))
drain_slot(S, c, slot_ptr) ==
    Release(Returned(Acquire(S, "slab_info"), c, slot_ptr,
                     frame_idx_from_address(mm, slot_ptr)), "slab_info")

\* cache.drain().for_each(closure): the first n slots of the cache, all of
\* them if n exceeds its length
RECURSIVE DrainSlots(_, _, _)
DrainSlots(S, c, n) ==
    IF n = 0 \/ S.cache = <<>> \/ S.M.panic THEN S
    ELSE DrainSlots(drain_slot([S EXCEPT !.cache = Tail(@)], c, Head(S.cache)),
                    c, n - 1)

\* SizeClassManager::dealloc
slab_dealloc(S, c, ptr) ==
    IF ~(Len(S.cache) >= hart_cache_target(c))
    THEN [S EXCEPT !.cache = <<ptr>> \o @]
    ELSE DrainSlots(S, c, greedy_drain_amount(hart_cache_target(c), Len(S.cache)))

\* the state a call into size class c by hart h leaves behind
SlabUpd(S, h, c, objsv, freedv, kretv) ==
    /\ frames' = S.M.frames
    /\ lists' = S.M.lists
    /\ bitmap' = S.M.bitmap
    /\ hart_caches' = [hart_caches EXCEPT ![h] = S.fcache]
    /\ slabs' = S.slabsv
    /\ slab_info' = S.info
    /\ partial_slabs' = [partial_slabs EXCEPT ![c] = S.partial]
    /\ empty_slabs' = [empty_slabs EXCEPT ![c] = S.empty]
    /\ slot_caches' = [slot_caches EXCEPT ![c][h] = S.cache]
    /\ lock_log' = S.log
    /\ objs' = objsv
    /\ freed' = freedv
    /\ kret' = kretv
    /\ panicked' = FALSE
    /\ UNCHANGED <<mm, locked, pc, loc, held, slub_ready, lockVars, onceVars>>

\* a call of the global allocator that touches no allocator state
SlabSkip(kretv) ==
    /\ kret' = kretv
    /\ UNCHANGED <<mm, frames, lists, bitmap, locked, hart_caches, pc, loc, held,
                   slabs, panicked, lockVars, onceVars>>
    /\ UNCHANGED <<slub_ready, slab_info, partial_slabs, empty_slabs, slot_caches,
                   objs, freed, lock_log>>

\* the SlubAllocator is stored into KernelAllocator.0
KernelAllocatorInit ==
    /\ ~panicked /\ ~slub_ready
    /\ slub_ready' = TRUE
    /\ UNCHANGED <<allocVars, lockVars, onceVars>>
    /\ UNCHANGED <<slab_info, partial_slabs, empty_slabs, slot_caches, objs, freed,
                   lock_log, kret>>

\* what the global allocator records of a call
KCall(op, h, size, align, ptr) ==
    [KRetNew EXCEPT !.op = op, !.hart = h, !.size = size, !.align = align,
                    !.class = find_size_class(size), !.ptr = ptr,
                    !.ready = slub_ready]

\* GlobalAlloc::alloc of KernelAllocator; r is the [S, ptr] of the size class
KernelAllocDone(r, h, c, size, align) ==
    IF r.S.M.panic \/ r.S.M.underflow THEN Halt
    ELSE SlabUpd(r.S, h, c,
             IF r.ptr = NIL THEN objs
             ELSE objs \cup {[ptr |-> r.ptr, size |-> size, align |-> align]},
             {x \in freed : x.ptr # r.ptr},
             [KCall("alloc", h, size, align, r.ptr) EXCEPT !.oom = r.S.err])
KernelAllocIn(h, c, size, align) ==
    IF ~slub_ready \/ c = NIL THEN SlabSkip(KCall("alloc", h, size, align, NIL))
    ELSE KernelAllocDone(slab_alloc(SlabState(h, c), c), h, c, size, align)
KernelAlloc(h, size, align) ==
    /\ ~panicked /\ Call
    /\ KernelAllocIn(h, find_size_class(size), size, align)

\* GlobalAlloc::dealloc of KernelAllocator with the layout of the allocation
KernelDeallocDone(S, h, c, o) ==
    IF S.M.panic \/ S.M.underflow THEN Halt
    ELSE SlabUpd(S, h, c, objs \ {o}, freed \cup {[ptr |-> o.ptr, hart |-> h]},
                 KCall("dealloc", h, o.size, o.align, o.ptr))
KernelDeallocIn(h, c, o) ==
    IF o.ptr = NIL THEN SlabSkip(KCall("dealloc", h, o.size, o.align, NIL))
    ELSE IF ~slub_ready \/ c = NIL THEN Halt
    ELSE KernelDeallocDone(slab_dealloc(SlabState(h, c), c, o.ptr), h, c, o)
KernelDealloc(h, o) ==
    /\ ~panicked /\ Call
    /\ KernelDeallocIn(h, find_size_class(o.size), o)

\* ------------------------------------------------------------ specification
\* layout.size() and layout.align() of the requests
Sizes == {0, BASE_SIZE, 2 * BASE_SIZE}
Aligns == {8, BASE_SIZE, 2 * BASE_SIZE}
\* frames reserved for kernel image, frame pool and allocator metadata
Reserved == {3, 4}

Init == \E reserved \in Reserved : InitAlloc(MemoryMap(RamOrder, reserved), MaxCalls)

Next ==
    \/ \E h \in Harts, size \in Sizes, align \in Aligns : Alloc(h, size, align)
    \/ \E h \in Harts : AllocSlab(h)
    \/ \E h \in Harts : RefillStep(h)
    \/ \E h \in Harts : PrepareStep(h)
    \/ \E h \in Harts : FinalizeStep(h)
    \/ \E h \in Harts : ConvertStep(h)
    \/ \E h \in Harts, ptr \in held : DeallocStart(h, ptr)
    \/ \E h \in Harts : FtgLock(h)
    \/ \E h \in Harts : FtgStep(h)

vars == <<allocVars, lockVars, onceVars, slabVars>>
Spec == Init /\ [][Next]_vars

\* one hart that allocates SeqAllocs single pages and then frees them, each
\* time the lowest or the highest page it holds
SeqReserved == {32, 47}
Lowest(S) == {a \in S : \A b \in S : a <= b}
Highest(S) == {a \in S : \A b \in S : a >= b}

InitSeq == \E reserved \in SeqReserved :
               InitAlloc(MemoryMap(BigRamOrder, reserved), SeqAllocs + SeqFrees)

NextSeq ==
    \/ budget > SeqFrees /\ Alloc(0, BASE_SIZE, 8)
    \/ RefillStep(0)
    \/ FinalizeStep(0)
    \/ \E ptr \in Lowest(held) \cup Highest(held) :
           budget <= SeqFrees /\ DeallocStart(0, ptr)
    \/ FtgLock(0)
    \/ FtgStep(0)

SpecSeq == InitSeq /\ [][NextSeq]_vars

\* the global allocator on the small RAM: harts allocate and free objects
\* of these layouts
MaxSlabCalls == 4
LayoutSizes == {8, 2048, BASE_SIZE}
LayoutAligns == {8, 16, 2 * BASE_SIZE}
NullObj == [ptr |-> NIL, size |-> 8, align |-> 8]

InitSlab ==
    \E reserved \in Reserved : InitAlloc(MemoryMap(RamOrder, reserved), MaxSlabCalls)

NextSlab ==
    \/ KernelAllocatorInit
    \/ \E h \in Harts, size \in LayoutSizes, align \in LayoutAligns :
           KernelAlloc(h, size, align)
    \/ \E h \in Harts, o \in objs \cup {NullObj} : KernelDealloc(h, o)

SpecSlab == InitSlab /\ [][NextSlab]_vars

\* the frame allocator on a RAM whose upper half is free_memory (64 pages):
\* harts allocate one page, half of the pool or the whole pool, and free
PoolRamOrder == 7
MaxOomCalls == 4
PoolPages == Pow2(PoolRamOrder - 1)
OomSizes == {BASE_SIZE, (PoolPages \div 2) * BASE_SIZE, PoolPages * BASE_SIZE}

InitOom == InitAlloc(MemoryMap(PoolRamOrder, PoolPages), MaxOomCalls)

NextOom ==
    \/ \E h \in Harts, size \in OomSizes : Alloc(h, size, 8)
    \/ \E h \in Harts : RefillStep(h)
    \/ \E h \in Harts : PrepareStep(h)
    \/ \E h \in Harts : FinalizeStep(h)
    \/ \E h \in Harts, ptr \in held : DeallocStart(h, ptr)
    \/ \E h \in Harts : FtgLock(h)
    \/ \E h \in Harts : FtgStep(h)

SpecOom == InitOom /\ [][NextOom]_vars

\* the frame allocator on the small RAM, called with layouts of size zero
\* and with pointers it never returned, returned before, or outside ram
MaxFreeCalls == 4
FreeSizes == {0, BASE_SIZE, 2 * BASE_SIZE}
FreeAligns == {8, BASE_SIZE}
FreePages == (Pow2(RamOrder) \div 2)
Pointers ==
    {DANGLING, mm.ram_start + mm.ram_size}
        \cup {mm.free_start + i * BASE_SIZE : i \in 0 .. (FreePages - 1)}

InitFree == InitAlloc(MemoryMap(RamOrder, FreePages), MaxFreeCalls)

NextFree ==
    \/ \E h \in Harts, size \in FreeSizes, align \in FreeAligns :
           Alloc(h, size, align)
    \/ \E h \in Harts : RefillStep(h)
    \/ \E h \in Harts : PrepareStep(h)
    \/ \E h \in Harts : FinalizeStep(h)
    \/ \E h \in Harts, ptr \in Pointers, size \in {0, BASE_SIZE},
          debug_assertions \in BOOLEAN :
           Dealloc(h, ptr, size, debug_assertions)
    \/ \E h \in Harts : FtgLock(h)
    \/ \E h \in Harts : FtgStep(h)

SpecFree == InitFree /\ [][NextFree]_vars

\* FrameAllocator::init on every size of free_memory a RAM of
\* 2^PoolRamOrder frames allows, followed by the first calls
MaxBootCalls == 2
BootReserved == 1 .. (Pow2(PoolRamOrder) - 1)

InitBoot ==
    \E reserved \in BootReserved :
        InitAlloc(MemoryMap(PoolRamOrder, reserved), MaxBootCalls)

NextBoot ==
    \/ \E h \in Harts : Alloc(h, BASE_SIZE, 8)
    \/ \E h \in Harts : RefillStep(h)
    \/ \E h \in Harts : FinalizeStep(h)
    \/ \E h \in Harts, ptr \in held : DeallocStart(h, ptr)

SpecBoot == InitBoot /\ [][NextBoot]_vars

\* one DoublyLinkedList<Frame> and one SinglyLinkedList<Frame> over
\* 2^ListOrder frames, none of them linked at the start: any frame is
\* pushed or inserted, linked or not
ListOrder == 2
MaxListCalls == 4

\* the outcome r of an operation on the doubly-linked list lists[0]
DlDone(r) ==
    IF r.panic THEN Halt
    ELSE Upd([Mem EXCEPT !.frames = r.frames,
                         !.lists = [lists EXCEPT ![0] = r.list]],
             hart_caches, pc, loc, held, slabs, locked)

\* the outcome r of an operation on the singly-linked list of hart 0's cache
SlDone(r) ==
    IF r.panic THEN Halt
    ELSE Upd([Mem EXCEPT !.frames = r.frames],
             [hart_caches EXCEPT ![0] = r.cache], pc, loc, held, slabs, locked)

DlPushFront(node) ==
    ~panicked /\ Call /\ DlDone(dl_push_front(frames, lists[0], node))
DlPushBack(node) ==
    ~panicked /\ Call /\ DlDone(dl_push_back(frames, lists[0], node))
DlInsertBefore(current, node) ==
    ~panicked /\ Call /\ DlDone(dl_insert_before(frames, lists[0], current, node))
DlInsertAfter(current, node) ==
    ~panicked /\ Call /\ DlDone(dl_insert_after(frames, lists[0], current, node))
DlPopFront ==
    /\ ~panicked /\ Call /\ lists[0].head # NIL
    /\ Upd([Mem EXCEPT !.frames = dl_pop_front(frames, lists[0]).frames,
                       !.lists = [lists EXCEPT
                                     ![0] = dl_pop_front(frames, lists[0]).list]],
           hart_caches, pc, loc, held, slabs, locked)
SlPushFront(node, debug_assertions) ==
    /\ ~panicked /\ Call
    /\ SlDone(sl_push_front_asserting(frames, hart_caches[0], node,
                                      debug_assertions))

\* the nodes a cursor of lists[0] can stand on, and the dangling cursor
Cursors == Members(frames, lists[0]) \cup {NIL}

InitList == InitAlloc(MemoryMap(ListOrder, Pow2(ListOrder)), MaxListCalls)

NextList ==
    \/ \E node \in DOMAIN frames : DlPushFront(node)
    \/ \E node \in DOMAIN frames : DlPushBack(node)
    \/ \E node \in DOMAIN frames, current \in Cursors :
           DlInsertBefore(current, node)
    \/ \E node \in DOMAIN frames, current \in Cursors :
           DlInsertAfter(current, node)
    \/ DlPopFront
    \/ \E node \in DOMAIN frames, debug_assertions \in BOOLEAN :
           SlPushFront(node, debug_assertions)

SpecList == InitList /\ [][NextList]_vars

\* ------------------------------------------------ PhysicalMemoryMap::calculate
MemoryRegion(start, size) == [start |-> start, size |-> size, panic |-> FALSE]
\* the region an initializer does not return because an assertion failed
NoRegion == [start |-> NIL, size |-> 0, panic |-> TRUE]
\* MemoryRegion::contains
contains(region, address) ==
    address >= region.start /\ address < region.start + region.size

\* kernel_start, kernel_end: the linker's symbols.  kernel_end below
\* kernel_start underflows: a panic with overflow checks, else a wrapped
\* (negative) size
init_kernel_region(ram, kernel_start, kernel_end, overflow_checks) ==
    IF ~contains(ram, kernel_start) THEN NoRegion
    ELSE IF kernel_end < kernel_start /\ overflow_checks THEN NoRegion
    ELSE IF ~contains(ram, kernel_start
                           + align_up(kernel_end - kernel_start, BASE_SIZE))
    THEN NoRegion
    ELSE MemoryRegion(kernel_start,
                      align_up(kernel_end - kernel_start, BASE_SIZE))

init_frame_pool_region(ram, kernel_region_end) ==
    IF ~contains(ram, kernel_region_end
                      + align_up((ram.size \div BASE_SIZE) * SIZE_OF_FRAME,
                                 BASE_SIZE))
    THEN NoRegion
    ELSE MemoryRegion(kernel_region_end,
                      align_up((ram.size \div BASE_SIZE) * SIZE_OF_FRAME,
                               BASE_SIZE))

init_allocator_metadata_region(ram, frame_pool_end) ==
    IF ~contains(ram, frame_pool_end
                      + align_up((ilog2(ram.size \div BASE_SIZE) + 1)
                                 * SIZE_OF_LIST, BASE_SIZE))
    THEN NoRegion
    ELSE MemoryRegion(frame_pool_end,
                      align_up((ilog2(ram.size \div BASE_SIZE) + 1)
                               * SIZE_OF_LIST, BASE_SIZE))

init_free_memory_region(ram, allocator_metadata_end) ==
    IF allocator_metadata_end % BASE_SIZE # 0 THEN NoRegion
    ELSE MemoryRegion(allocator_metadata_end,
                      ram.start + ram.size - allocator_metadata_end)

\* the map without regions that a panicking calculate leaves behind
NoMap == [ram_start |-> 0, ram_size |-> 0, free_start |-> 0, free_size |-> 0,
          panic |-> TRUE]
\* region.end(): a checked addition, which a wrapped size overflows
end_of(region) == region.start + region.size

calculate_free(ram, kernel, frame_pool, metadata, free_memory) ==
    IF free_memory.panic THEN NoMap
    ELSE [ram_start |-> ram.start, ram_size |-> ram.size,
          free_start |-> free_memory.start, free_size |-> free_memory.size,
          kernel |-> kernel, frame_pool |-> frame_pool,
          frame_allocator_metadata |-> metadata, free_memory |-> free_memory,
          panic |-> FALSE]
calculate_metadata(ram, kernel, frame_pool, metadata) ==
    IF metadata.panic THEN NoMap
    ELSE calculate_free(ram, kernel, frame_pool, metadata,
                        init_free_memory_region(ram, end_of(metadata)))
calculate_frame_pool(ram, kernel, frame_pool) ==
    IF frame_pool.panic THEN NoMap
    ELSE calculate_metadata(ram, kernel, frame_pool,
             init_allocator_metadata_region(ram, end_of(frame_pool)))
calculate_kernel(ram, kernel) ==
    IF kernel.panic \/ kernel.size < 0 THEN NoMap
    ELSE calculate_frame_pool(ram, kernel,
                              init_frame_pool_region(ram, end_of(kernel)))
calculate(ram_start, ram_size, kernel_start, kernel_end, overflow_checks) ==
    IF ram_size % BASE_SIZE # 0 THEN NoMap
    ELSE calculate_kernel(MemoryRegion(ram_start, ram_size),
             init_kernel_region(MemoryRegion(ram_start, ram_size),
                                kernel_start, kernel_end, overflow_checks))

\* the map is calculated once, at boot, from what the device tree and the
\* linker give
LayoutPages == 12
RamStarts == {RamStart, RamStart + BASE_SIZE \div 2}
RamSizes == {p * BASE_SIZE : p \in 0 .. LayoutPages} \cup {BASE_SIZE + 1}
KernelStarts ==
    {RamStart - BASE_SIZE} \cup {RamStart + i * (BASE_SIZE \div 2) : i \in 0 .. 4}
KernelLengths ==
    {0 - BASE_SIZE, 0 - 1, 0, 1, BASE_SIZE, BASE_SIZE + 1, 3 * BASE_SIZE}

Calculate(ram_start, ram_size, kernel_start, kernel_end, overflow_checks) ==
    /\ ~panicked /\ Call
    /\ mm' = calculate(ram_start, ram_size, kernel_start, kernel_end,
                       overflow_checks)
    /\ panicked' = mm'.panic
    /\ UNCHANGED <<frames, lists, bitmap, locked, hart_caches, pc, loc, held,
                   slabs>>
    /\ UNCHANGED <<lockVars, onceVars, slabVars>>

InitLayout == InitAlloc([NoMap EXCEPT !.panic = FALSE], 1)

NextLayout ==
    \E ram_start \in RamStarts, ram_size \in RamSizes,
       kernel_start \in KernelStarts, length \in KernelLengths,
       overflow_checks \in BOOLEAN :
        Calculate(ram_start, ram_size, kernel_start, kernel_start + length,
                  overflow_checks)

SpecLayout == InitLayout /\ [][NextLayout]_vars

\* memory::init on a RAM of any whole number of pages: the map calculate
\* returns goes to FrameAllocator::init; one hart then allocates and frees
MaxRamPages == 7
MaxRamCalls == 4
RamPages == 4 .. MaxRamPages
KernelPages == 1 .. 2
RamSizesOk(pages, kernel_pages) ==
    ~calculate(RamStart, pages * BASE_SIZE, RamStart,
               RamStart + kernel_pages * BASE_SIZE, TRUE).panic

InitRam ==
    \E pages \in RamPages, kernel_pages \in KernelPages :
        /\ RamSizesOk(pages, kernel_pages)
        /\ InitAlloc(calculate(RamStart, pages * BASE_SIZE, RamStart,
                               RamStart + kernel_pages * BASE_SIZE, TRUE),
                     MaxRamCalls)

NextRam ==
    \/ \E size \in {BASE_SIZE, 2 * BASE_SIZE} : Alloc(0, size, 8)
    \/ RefillStep(0)
    \/ PrepareStep(0)
    \/ FinalizeStep(0)
    \/ \E ptr \in held : DeallocStart(0, ptr)
    \/ FtgLock(0)
    \/ FtgStep(0)

SpecRam == InitRam /\ [][NextRam]_vars

\* ---------------------------------------------------------------- Spinlock
\* a compare_exchange that succeeds whatever the flag holds
compare_exchange_always_ok(flag, current, new) == [ok |-> TRUE, value |-> new]

\* AtomicBool::compare_exchange(current, new) on a flag: whether it
\* succeeded, and the flag afterwards
compare_exchange(flag, current, new) ==
    IF flag = current THEN [ok |-> TRUE, value |-> new]
    ELSE [ok |-> FALSE, value |-> flag]

LockUpd(lockedv, guardsv, lpcv, innerv) ==
    /\ locked' = lockedv
    /\ guards' = guardsv
    /\ lpc' = lpcv
    /\ inner' = innerv
    /\ UNCHANGED <<owners, lock_todo>>
    /\ UNCHANGED <<mm, frames, lists, bitmap, hart_caches, pc, loc, held, slabs,
                   budget, panicked>>
    /\ UNCHANGED <<onceVars, slabVars>>

\* Spinlock::lock: the hart enters the loop
lock(h) ==
    /\ lpc[h] = "idle"
    /\ LockUpd(locked, guards, [lpc EXCEPT ![h] = "spin"], inner)

\* Spinlock::lock: one compare_exchange of the loop; on success the guard
\* is constructed, otherwise spin_loop() and the next iteration
LockSpin(h) ==
    /\ lpc[h] = "spin"
    /\ LET r == compare_exchange(locked, FALSE, TRUE) IN
       IF r.ok
       THEN LockUpd(r.value, [guards EXCEPT ![h] = @ + 1],
                    [lpc EXCEPT ![h] = "idle"], inner)
       ELSE LockUpd(r.value, guards, lpc, inner)

\* try_lock with the outcome of its compare_exchange ignored
try_lock_always_some(h) ==
    /\ lpc[h] = "idle" /\ guards[h] < 2
    /\ LockUpd(TRUE, [guards EXCEPT ![h] = @ + 1], lpc, inner)

\* Spinlock::try_lock
try_lock(h) ==
    /\ lpc[h] = "idle"
    /\ LET r == compare_exchange(locked, FALSE, TRUE) IN
       IF r.ok
       THEN LockUpd(r.value, [guards EXCEPT ![h] = @ + 1], lpc, inner)
       ELSE LockUpd(r.value, guards, lpc, inner)

\* SpinlockGuard::deref_mut: the owner of a guard writes the protected value
deref_mut(h) ==
    /\ lpc[h] = "idle" /\ guards[h] > 0 /\ inner < MaxWrites
    /\ LockUpd(locked, guards, lpc, inner + 1)

\* Spinlock::unlock
unlock == FALSE

\* SpinlockGuard::drop
drop(h) ==
    /\ lpc[h] = "idle" /\ guards[h] > 0
    /\ LockUpd(unlock, [guards EXCEPT ![h] = @ - 1], lpc, inner)

InitLock == InitAlloc(MemoryMap(RamOrder, 4), 0)

NextLock ==
    \/ \E h \in LockHarts : lock(h)
    \/ \E h \in LockHarts : LockSpin(h)
    \/ \E h \in LockHarts : try_lock(h)
    \/ \E h \in LockHarts : deref_mut(h)
    \/ \E h \in LockHarts : drop(h)

SpecLock == InitLock /\ [][NextLock]_vars

\* ---------------------------------------------------------------- OnceLock
OnceUpd(initv, innerv, opcv, olocv) ==
    /\ initialized' = initv
    /\ once_inner' = innerv
    /\ opc' = opcv
    /\ oloc' = olocv
    /\ UNCHANGED <<allocVars, lockVars, slabVars>>

\* OnceLock::is_initialized
is_initialized == initialized

\* OnceLock::get up to the load of initialized
get(h) ==
    /\ opc[h] = "idle"
    /\ IF is_initialized
       THEN OnceUpd(initialized, once_inner, [opc EXCEPT ![h] = "get_read"],
                    [oloc EXCEPT ![h] = [OLocNew EXCEPT !.op = "get", !.seen = TRUE]])
       ELSE OnceUpd(initialized, once_inner, opc,
                    [oloc EXCEPT ![h] = [OLocNew EXCEPT !.op = "get", !.ret = "None"]])

\* OnceLock::get: (*self.inner.get()).as_ref()
GetRead(h) ==
    /\ opc[h] = "get_read"
    /\ OnceUpd(initialized, once_inner, [opc EXCEPT ![h] = "idle"],
               [oloc EXCEPT ![h].ret = IF once_inner = NIL THEN "None" ELSE "Some",
                            ![h].arg = once_inner])

\* OnceLock::get_or_init(init) up to the first load of initialized;
\* v is the value init() would produce
get_or_init(h, v) ==
    /\ opc[h] = "idle"
    /\ OnceUpd(initialized, once_inner,
               [opc EXCEPT ![h] = IF is_initialized THEN "goi_read" ELSE "goi_cas"],
               [oloc EXCEPT ![h] = [OLocNew EXCEPT !.op = "get_or_init", !.arg = v,
                                                    !.seen = is_initialized]])

\* get_or_init: the compare_exchange on initialized
GoiCas(h) ==
    /\ opc[h] = "goi_cas"
    /\ LET r == compare_exchange(initialized, FALSE, TRUE) IN
       OnceUpd(r.value, once_inner,
               [opc EXCEPT ![h] = IF r.ok THEN "goi_init" ELSE "goi_spin"], oloc)

\* get_or_init, winner: init() and *self.inner.get() = Some(val)
GoiInit(h) ==
    /\ opc[h] = "goi_init"
    /\ OnceUpd(initialized, oloc[h].arg, [opc EXCEPT ![h] = "idle"],
               [oloc EXCEPT ![h].ret = "Some"])

\* get_or_init, loser: one iteration of while !self.is_initialized()
GoiSpin(h) ==
    /\ opc[h] = "goi_spin"
    /\ IF is_initialized
       THEN OnceUpd(initialized, once_inner, [opc EXCEPT ![h] = "goi_read"],
                    [oloc EXCEPT ![h].seen = TRUE])
       ELSE OnceUpd(initialized, once_inner, opc, oloc)

\* get_or_init: (*self.inner.get()).as_ref().unwrap_unchecked(); on None the
\* behaviour is undefined: the reference returned may read as anything
GoiRead(h) ==
    /\ opc[h] = "goi_read"
    /\ IF once_inner # NIL
       THEN OnceUpd(initialized, once_inner, [opc EXCEPT ![h] = "idle"],
                    [oloc EXCEPT ![h].ret = "Some", ![h].arg = once_inner])
       ELSE \E garbage \in Vals \cup {NIL} :
                OnceUpd(initialized, once_inner, [opc EXCEPT ![h] = "idle"],
                        [oloc EXCEPT ![h].ret = "undefined", ![h].arg = garbage])

\* OnceLock::set(value) up to the load of initialized
set(h, v) ==
    /\ opc[h] = "idle"
    /\ IF is_initialized
       THEN OnceUpd(initialized, once_inner, opc,
                    [oloc EXCEPT ![h] = [OLocNew EXCEPT !.op = "set", !.arg = v,
                                                         !.seen = TRUE, !.ret = "Err"]])
       ELSE OnceUpd(initialized, once_inner, [opc EXCEPT ![h] = "set_cas"],
                    [oloc EXCEPT ![h] = [OLocNew EXCEPT !.op = "set", !.arg = v]])

\* set: the compare_exchange on initialized
SetCas(h) ==
    /\ opc[h] = "set_cas"
    /\ LET r == compare_exchange(initialized, FALSE, TRUE) IN
       IF r.ok
       THEN OnceUpd(r.value, once_inner, [opc EXCEPT ![h] = "set_write"], oloc)
       ELSE OnceUpd(r.value, once_inner, [opc EXCEPT ![h] = "idle"],
                    [oloc EXCEPT ![h].ret = "Err"])

\* set, winner: *self.inner.get() = Some(value)
SetWrite(h) ==
    /\ opc[h] = "set_write"
    /\ OnceUpd(initialized, oloc[h].arg, [opc EXCEPT ![h] = "idle"],
               [oloc EXCEPT ![h].ret = "Ok"])

InitOnce == InitAlloc(MemoryMap(RamOrder, 4), 0)

NextOnce ==
    \/ \E h \in LockHarts : get(h)
    \/ \E h \in LockHarts : GetRead(h)
    \/ \E h \in LockHarts, v \in Vals : get_or_init(h, v)
    \/ \E h \in LockHarts : GoiCas(h)
    \/ \E h \in LockHarts : GoiInit(h)
    \/ \E h \in LockHarts : GoiSpin(h)
    \/ \E h \in LockHarts : GoiRead(h)
    \/ \E h \in LockHarts, v \in Vals : set(h, v)
    \/ \E h \in LockHarts : SetCas(h)
    \/ \E h \in LockHarts : SetWrite(h)

SpecOnce == InitOnce /\ [][NextOnce]_vars

\* harts that only call set on one cell
NextSet ==
    \/ \E h \in LockHarts, v \in Vals : set(h, v)
    \/ \E h \in LockHarts : SetCas(h)
    \/ \E h \in LockHarts : SetWrite(h)

SpecSet == InitOnce /\ [][NextSet]_vars

\* harts that only call get_or_init on one cell
NextGetOrInit ==
    \/ \E h \in LockHarts, v \in Vals : get_or_init(h, v)
    \/ \E h \in LockHarts : GoiCas(h)
    \/ \E h \in LockHarts : GoiInit(h)
    \/ \E h \in LockHarts : GoiSpin(h)
    \/ \E h \in LockHarts : GoiRead(h)

SpecGetOrInit == InitOnce /\ [][NextGetOrInit]_vars

\* ------------------------------------------------------------- properties
\* no allocator call is in progress
Quiescent == ~panicked /\ \A h \in Harts : pc[h] = "idle"

FreeListMembers(k) == Members(frames, lists[k])

\* C1: every member of free_lists[k] is a Free frame whose order field is k,
\* so no Allocated or Slab frame is a member of a buddy free list
C1_FreeListMembersAreFree ==
    Quiescent =>
        \A k \in DOMAIN lists : \A f \in FreeListMembers(k) :
            frames[f].state = "Free" /\ frames[f].order = k

\* C2: every frame on free_lists[k] starts at an address that is a multiple
\* of 2^k * BASE_SIZE, from init on
C2_BlockHeadsAligned ==
    \A k \in DOMAIN lists : \A f \in FreeListMembers(k) :
        frame_ref_to_address(mm, f) % (Pow2(k) * BASE_SIZE) = 0

\* C3: bit k of the bitmap is set iff free_lists[k] is non-empty
C3_BitmapMatchesLists ==
    ~panicked =>
        \A k \in DOMAIN lists : TestBit(bitmap, k) <=> ~list_is_empty(lists[k])

\* the free-pool frames, and the frames of the block headed by f
FreeFrames ==
    {f \in DOMAIN frames :
        /\ frame_ref_to_address(mm, f) >= mm.free_start
        /\ frame_ref_to_address(mm, f) < mm.free_start + mm.free_size}
BlockFrames(f, order) == f .. (f + Pow2(order) - 1)

\* the holders of page p: blocks on free lists, hart caches, outstanding
\* allocations, slabs
Holders(p) ==
    LET onList == UNION {{<<"list", k, g>> : g \in {f \in FreeListMembers(k) :
                                                     p \in BlockFrames(f, k)}} :
                         k \in DOMAIN lists}
        inCache == {<<"cache", h, p>> : h \in {i \in Harts :
                        p \in CacheMembers(frames, hart_caches[i])}}
        inAlloc == {<<"alloc", 0, a>> : a \in {b \in held :
                        p \in BlockFrames(frame_idx_from_address(mm, b),
                                          frames[frame_idx_from_address(mm, b)].order)}}
        inSlab == {<<"slab", 0, q>> : q \in slabs \cap {p}}
    IN  onList \cup inCache \cup inAlloc \cup inSlab

\* C4: between operations every page of free_memory has exactly one holder
C4_PageConservation ==
    Quiescent => \A p \in FreeFrames : Cardinality(Holders(p)) = 1

\* C5: no block on free_lists[k], k < orders - 1, has its buddy on
\* free_lists[k] as a Free block of order k
C5_CoalescingMaximal ==
    Quiescent =>
        \A k \in DOMAIN lists : \A f \in FreeListMembers(k) :
            k < Orders(mm) - 1 /\ RamContains(mm, BuddyOf(f, k)) =>
                LET b == frame_idx_from_address(mm, BuddyOf(f, k)) IN
                ~(b \in FreeListMembers(k) /\ is_free(frames[b]) /\ frames[b].order = k)

\* C10: a hart holding the free-lists lock that finds the buddy Free with
\* the matching order finds a member of free_lists[order]
C10_FreeBuddyIsListed ==
    \A h \in Harts :
        (/\ ~panicked /\ pc[h] = "ftg" /\ loc[h].order < Orders(mm) - 1
         /\ RamContains(mm, BuddyOf(loc[h].cur, loc[h].order))) =>
            LET b == frame_idx_from_address(mm, BuddyOf(loc[h].cur, loc[h].order)) IN
            (is_free(frames[b]) /\ frames[b].order = loc[h].order) =>
                b \in FreeListMembers(loc[h].order)

\* the free lists as sets of block heads, and the bytes on them
ListContents(M) == [k \in DOMAIN M.lists |-> Members(M.frames, M.lists[k])]
RECURSIVE SumBlocks(_, _)
SumBlocks(contents, k) ==
    IF k \notin DOMAIN contents THEN 0
    ELSE Cardinality(contents[k]) * Pow2(k) * BASE_SIZE + SumBlocks(contents, k + 1)
FreeBytes(M) == SumBlocks(ListContents(M), 0)

\* C6: once every allocated block has been deallocated, the bitmap, the
\* contents of every free list and the free bytes on the lists are those
\* right after init.  Stated for the states in which no hart cache retains a
\* frame, so that a page parked in a cache is not what makes the difference
C6_ZeroLeakRestoresInit ==
    (/\ Quiescent /\ budget < MaxCalls /\ held = {} /\ slabs = {}
     /\ \A h \in Harts : cache_is_empty(hart_caches[h])) =>
        LET I == FrameAllocatorInit(mm) IN
        /\ bitmap = I.bitmap
        /\ ListContents(Mem) = ListContents(I)
        /\ FreeBytes(Mem) = FreeBytes(I)

\* C7: when prepare_block(j) pops a block of order k > j and splits it, and
\* the order-j block it returns goes straight back through free_to_global,
\* the free lists and the bitmap are as before the split
C7_SplitCoalesceRoundTrip ==
    (~panicked /\ ~locked) =>
        \A j \in DOMAIN lists :
            LET k == find_first_free_from(Mem, j)
                r == prepare_block(Mem, j)
            IN  (k # NIL /\ k > j /\ r.node # NIL /\ ~r.M.panic) =>
                    LET back == free_to_global(r.M, r.node) IN
                    /\ ~back.panic
                    /\ back.bitmap = bitmap
                    /\ ListContents(back) = ListContents(Mem)
                    /\ r.node \in ListContents(back)[k]

\* C8: a hart that has seen initialized = true sees the value: get does not
\* return None after that, and get_or_init neither reads the cell nor
\* returns before the winner has written it
C8_OncePublication ==
    \A h \in LockHarts :
        /\ (oloc[h].op = "get" /\ oloc[h].seen /\ oloc[h].ret # "pending") =>
               oloc[h].ret = "Some"
        /\ opc[h] = "goi_read" => once_inner # NIL
        /\ (oloc[h].op = "get_or_init" /\ oloc[h].ret # "pending") =>
               oloc[h].ret = "Some" /\ once_inner # NIL

\* C9: at most one guard of the Spinlock exists at a time; a guard is handed
\* out only by a step that changes locked from false to true; locked goes
\* back to false only by the drop of the holder's guard
AtMostOneGuard ==
    /\ \A h \in LockHarts : guards[h] <= 1
    /\ \A h, g \in LockHarts : h # g => ~(guards[h] > 0 /\ guards[g] > 0)
GuardOnlyByAcquire ==
    \A h \in LockHarts : guards'[h] > guards[h] => ~locked /\ locked'
ReleaseOnlyByDrop ==
    (locked /\ ~locked') =>
        \E h \in LockHarts : guards[h] > 0 /\ guards'[h] = guards[h] - 1
C9_MutualExclusion ==
    []AtMostOneGuard /\ [][GuardOnlyByAcquire /\ ReleaseOnlyByDrop]_vars

\* a hart owns the guard and has written through it while another hart,
\* which owns none, is spinning in lock
C9_Contended ==
    \E h, g \in LockHarts :
        /\ h # g /\ guards[h] = 1 /\ locked /\ inner > 0
        /\ lpc[g] = "spin" /\ guards[g] = 0

\* position of a lock in the documented order: size-class list lock, then
\* per-frame slab-info lock, then the buddy free_lists lock
LockRank(l) ==
    IF l \in {"partial_slabs", "empty_slabs"} THEN 1
    ELSE IF l = "slab_info" THEN 2 ELSE 3

\* C11: on every path of slab alloc, refill and dealloc a hart takes a lock
\* only while the locks it already holds come no later in the order list
\* lock -> slab-info lock -> free_lists lock: never a list lock while it
\* holds a slab-info lock, never a slab lock while it holds the free_lists
\* lock
C11_LockOrder ==
    \A p \in lock_log : LockRank(p[1]) <= LockRank(p[2])

\* the closure of SizeClassManager::dealloc applied to every slot in the
\* cache of hart h for class c, in the order the cache yields them
DrainAll(h, c) == DrainSlots(SlabState(h, c), c, Len(slot_caches[c][h]))

\* every eviction recorded in S handed back the evicted slab's own page, and
\* left that frame Free with no slot in use; the frame cache of hart h
\* gained no frame but evicted slabs
EvictionsSound(S, h) ==
    /\ \A i \in 1 .. Len(S.evicted) :
           /\ S.info[S.evicted[i].slab].in_use_count = 0
           /\ S.M.frames[S.evicted[i].slab].state = "Free"
           /\ S.evicted[i].ptr = frame_ref_to_address(mm, S.evicted[i].slab)
    /\ CacheMembers(S.M.frames, S.fcache) \ CacheMembers(frames, hart_caches[h])
           \subseteq {S.evicted[i].slab : i \in 1 .. Len(S.evicted)}
    /\ \A f \in DOMAIN frames :
           f \notin {S.evicted[i].slab : i \in 1 .. Len(S.evicted)} =>
               /\ S.M.frames[f].state = frames[f].state
               /\ S.M.frames[f].order = frames[f].order

SlabSlots(f) ==
    {frame_ref_to_address(mm, f) + i * object_size(slab_info[f].cache) :
         i \in 0 .. (slots_per_slab(slab_info[f].cache) - 1)}
FreedBy(f, h) == {x.ptr : x \in {y \in freed : y.hart = h}} \cap SlabSlots(f)
HeldOf(f) == {o.ptr : o \in objs} \cap SlabSlots(f)

\* C13: a slab all of whose slots went out to callers is on partial_slabs
\* once a hart has deallocated some of its objects, and on empty_slabs once
\* that hart has deallocated all slots_per_slab of them
C13_SlabLifecycleOnFree ==
    \A f \in slabs, h \in Harts :
        (FreedBy(f, h) # {} /\ FreedBy(f, h) \cup HeldOf(f) = SlabSlots(f)) =>
            IF HeldOf(f) # {}
            THEN f \in Members(frames, partial_slabs[slab_info[f].cache])
            ELSE f \in Members(frames, empty_slabs[slab_info[f].cache])

\* in S, as long as no more than EMPTY_SLABS_CAP slabs of class c are empty
\* all of them are on empty_slabs and none was handed back; empty_slabs
\* holds at most EMPTY_SLABS_CAP slabs
EmptyReserveKept(S, c) ==
    /\ S.empty.len <= EMPTY_SLABS_CAP
    /\ Cardinality({f \in S.slabsv : S.info[f].cache = c
                                     /\ S.info[f].in_use_count = 0})
           <= EMPTY_SLABS_CAP =>
           /\ S.evicted = <<>>
           /\ {f \in S.slabsv : S.info[f].cache = c /\ S.info[f].in_use_count = 0}
                  \subseteq Members(S.M.frames, S.empty)

SlabListsMatchFill(S, c) ==
    /\ \A f \in {g \in S.slabsv : S.info[g].cache = c
                                  /\ S.M.frames[g].state = "Slab"} :
           /\ (S.info[f].next_slot # <<>> /\ S.info[f].in_use_count > 0) =>
                  f \in Members(S.M.frames, S.partial)
           /\ S.info[f].in_use_count = 0 => f \in Members(S.M.frames, S.empty)
           /\ S.info[f].next_slot = <<>> =>
                  f \notin Members(S.M.frames, S.partial)
                               \cup Members(S.M.frames, S.empty)
    /\ Members(S.M.frames, S.partial) \cap Members(S.M.frames, S.empty) = {}
    /\ Cardinality(Members(S.M.frames, S.partial)) = S.partial.len
    /\ Cardinality(Members(S.M.frames, S.empty)) = S.empty.len

\* the lists agree with the fill state between the calls of the allocator
ListsMatchFillBetweenCalls ==
    \A h \in Harts, c \in Classes : SlabListsMatchFill(SlabState(h, c), c)

C16_OversizeRoutedToBuddy ==
    /\ (/\ kret.op = "alloc" /\ kret.ready
        /\ kret.size > 2048 /\ kret.align <= BASE_SIZE
        /\ kret.size < mm.free_size
        /\ prepare_block(Mem, order_from_size(kret.size)).node # NIL)
           => kret.ptr # NIL /\ kret.ptr \in held
    /\ (kret.op = "dealloc" /\ kret.size > 2048 /\ kret.ptr # NIL)
           => kret.ptr \notin held

\* C17: the global alloc serves a request from a size class only if
\* layout.align <= the class's object_size, every non-null pointer it
\* returns is a multiple of layout.align, and a request with
\* align > BASE_SIZE returns null
C17_GlobalAllocAlignment ==
    kret.op = "alloc" =>
        /\ kret.ptr # NIL =>
               /\ kret.align <= object_size(kret.class)
               /\ kret.ptr % kret.align = 0
        /\ kret.align > BASE_SIZE => kret.ptr = NIL

\* C18: FrameAllocator::alloc with size >= free_memory.size returns None:
\* the call does not panic and leaves free lists, bitmap, caches and frame
\* states as they were
C18_OversizeRequestFailsSoftly ==
    [][\A h \in Harts, size \in OomSizes :
           (size >= mm.free_size /\ Alloc(h, size, 8)) =>
               /\ ~panicked'
               /\ UNCHANGED <<frames, lists, bitmap, hart_caches, held>>]_vars

\* no free list of order k or above has a block
ListsExhausted(k) ==
    \A j \in DOMAIN lists : j >= k => Members(frames, lists[j]) = {}

\* hart h takes the step of alloc that asks the free lists for a block of
\* the order it needs while there is none, its own cache being empty when
\* it needs order 0
OutOfMemoryStep(h) ==
    \/ /\ pc[h] = "prepare" /\ ListsExhausted(loc[h].order)
       /\ PrepareStep(h)
    \/ /\ pc[h] = "refill" /\ loc[h].op = "alloc" /\ ListsExhausted(0)
       /\ cache_is_empty(hart_caches[h])
       /\ RefillStep(h)

\* C19: when alloc needs order k, no free list of order >= k has a block
\* and, for k = 0, the hart's cache is empty, alloc panics and returns no
\* pointer
C19_BuddyOomIsFatal ==
    [][\A h \in Harts : OutOfMemoryStep(h) => panicked' /\ held' = held]_vars

\* the two halves of the pool are allocated and an alloc of 4096 bytes has
\* panicked in its refill, with every free list and the hart's cache empty
C19_OomAfterTwoHalves ==
    /\ panicked
    /\ held = {mm.free_start, mm.free_start + (PoolPages \div 2) * BASE_SIZE}
    /\ ListsExhausted(0)
    /\ \E h \in Harts : /\ pc[h] = "refill" /\ loc[h].op = "alloc"
                        /\ cache_is_empty(hart_caches[h])

\* C20: when a slab alloc needs a new slab and the frame allocator cannot
\* supply a page, the call ends in the same panic as a direct allocation
\* from the frame allocator: it does not return
C20_SlabOomIsFatal ==
    (kret.op = "alloc" /\ kret.oom) => panicked

\* a step that leaves the free lists, the bitmap, the caches, every frame
\* and the pointers handed out as they were
AllocatorUntouched ==
    UNCHANGED <<frames, lists, bitmap, hart_caches, held, locked>>

C22_ZeroSizeTouchesNothing ==
    [][/\ \A h \in Harts, align \in FreeAligns :
            Alloc(h, 0, align) =>
                /\ alloc_early_return(0, align).returns
                /\ alloc_early_return(0, align).ptr # NIL
                /\ alloc_early_return(0, align).ptr # 0
                /\ ~panicked' /\ pc'[h] = "idle" /\ AllocatorUntouched
       /\ \A h \in Harts, ptr \in Pointers, dbg \in BOOLEAN :
            Dealloc(h, ptr, 0, dbg) =>
                ~panicked' /\ pc'[h] = "idle" /\ AllocatorUntouched]_vars

\* a page is held, a later call with a zero-size layout has returned, and
\* the allocator is as the alloc of the page left it
C22_ZeroSizeCallReturned ==
    /\ budget = MaxFreeCalls - 2 /\ ~panicked
    /\ \A h \in Harts : pc[h] = "idle"
    /\ Cardinality(held) = 1
    /\ \E h \in Harts : hart_caches[h].len = 3

\* the frame of an address inside ram is in state Free
HeadIsFree(ptr) ==
    RamContains(mm, ptr) /\ frames[frame_idx_from_address(mm, ptr)].state = "Free"

\* C23 as stated: dealloc of a non-zero-size block whose head frame is
\* already Free panics before anything is modified, in every build
C23_DoubleFreeDetected ==
    [][\A h \in Harts, ptr \in Pointers, dbg \in BOOLEAN :
           (HeadIsFree(ptr) /\ Dealloc(h, ptr, BASE_SIZE, dbg)) =>
               panicked' /\ AllocatorUntouched]_vars

\* C23, amended: in a build with debug assertions, dealloc of a
\* non-zero-size block whose head frame is already Free panics before
\* anything is modified
C23_DoubleFreeDetectedInDebugBuild ==
    [][\A h \in Harts, ptr \in Pointers :
           (HeadIsFree(ptr) /\ Dealloc(h, ptr, BASE_SIZE, TRUE)) =>
               panicked' /\ AllocatorUntouched]_vars

\* a hart stopped in dealloc of a page that sits, Free, in a hart cache
C23_SecondFreePanicked ==
    \E h \in Harts :
        /\ panicked /\ pc[h] = "panic" /\ loc[h].op = "dealloc"
        /\ loc[h].size > 0 /\ HeadIsFree(loc[h].ptr)
        /\ \E g \in Harts : frame_idx_from_address(mm, loc[h].ptr)
                                \in CacheMembers(frames, hart_caches[g])

\* C24: dealloc with a non-zero-size layout and a pointer outside ram
\* panics before a frame, a free list, the bitmap or a cache is modified
C24_OutsideRamIsFatal ==
    [][\A h \in Harts, ptr \in Pointers, dbg \in BOOLEAN :
           (~RamContains(mm, ptr) /\ Dealloc(h, ptr, BASE_SIZE, dbg)) =>
               panicked' /\ AllocatorUntouched]_vars

\* a hart stopped in dealloc of the first address behind ram while a page
\* is held
C24_EndOfRamPanicked ==
    \E h \in Harts :
        /\ panicked /\ pc[h] = "panic" /\ loc[h].op = "dealloc"
        /\ loc[h].size > 0 /\ loc[h].ptr = mm.ram_start + mm.ram_size
        /\ held # {}

\* pages of free_memory
FreePoolPages == mm.free_size \div BASE_SIZE

\* the frame at which the block of order k starts when the blocks of the
\* set bits of n lie one behind the other from free_memory.start, largest
\* first: behind the blocks of all higher set bits
GreedyHead(n, k) ==
    frame_idx_from_address(mm, mm.free_start)
        + (n \div Pow2(k + 1)) * Pow2(k + 1)

\* free_lists[k] holds the one block of order k of the partition of n
\* pages, or nothing when bit k of n is clear
GreedyList(n, k) ==
    IF TestBit(n, k)
    THEN /\ lists[k].len = 1
         /\ lists[k].head = GreedyHead(n, k) /\ lists[k].tail = GreedyHead(n, k)
         /\ frames[GreedyHead(n, k)].order = k
         /\ frames[GreedyHead(n, k)].state = "Free"
    ELSE lists[k] = ListNew

\* C25: after init on a free pool of N pages free_lists[k] holds exactly
\* one block if bit k of N is set and none otherwise, bitmap = N, the
\* blocks lie one behind the other from free_memory.start in descending
\* order and cover free_memory, and all hart caches are empty
C25_GreedyInit ==
    budget = MaxBootCalls =>
        /\ \A k \in DOMAIN lists : GreedyList(FreePoolPages, k)
        /\ bitmap = FreePoolPages
        /\ \A h \in Harts : hart_caches[h].len = 0 /\ hart_caches[h].head = NIL

\* the allocator after init on 64 pages: one block of order 6 at
\* free_memory.start, bitmap 0b1000000
C25_SixtyFourPages ==
    /\ budget = MaxBootCalls /\ FreePoolPages = 64
    /\ bitmap = 64
    /\ lists[6].len = 1
    /\ frame_ref_to_address(mm, lists[6].head) = mm.free_start

\* the first call on the fresh pool was an alloc of one page and has
\* returned the address a
FirstPageAllocReturned(a) ==
    /\ budget = MaxOomCalls - 1 /\ ~panicked
    /\ \A h \in Harts : pc[h] = "idle"
    /\ held = {a}
    /\ frames[frame_idx_from_address(mm, a)].order = 0

\* C26: on a freshly initialised aligned 64-page pool starting at A,
\* alloc(4096, 8) returns A, and afterwards the free lists hold exactly one
\* block at each order k = 0..5, at A + 4096 * 2^k, with bitmap 0b0111111
C26_FirstPageAllocation ==
    \A a \in held :
        FirstPageAllocReturned(a) =>
            /\ a = mm.free_start
            /\ bitmap = 63
            /\ lists[6] = ListNew
            /\ \A k \in 0 .. 5 :
                   /\ lists[k].len = 1
                   /\ frame_ref_to_address(mm, lists[k].head)
                          = mm.free_start + BASE_SIZE * Pow2(k)

\* a step of hart h that takes no lock and leaves the free lists, the
\* bitmap, the other harts' caches and every frame but f as they were
LocalTo(h, f) ==
    /\ ~panicked'
    /\ UNCHANGED <<lists, bitmap, locked>>
    /\ \A g \in Harts \ {h} : hart_caches'[g] = hart_caches[g]
    /\ \A x \in DOMAIN frames \ {f} : frames'[x] = frames[x]

\* alloc of order 0 by hart h with its cache non-empty: the pop
FastAlloc(h) ==
    /\ ~cache_is_empty(hart_caches[h])
    /\ \E size \in Sizes, align \in Aligns :
           /\ ~alloc_early_return(size, align).returns
           /\ order_from_size(size) = 0
           /\ Alloc(h, size, align)

\* dealloc of a page by hart h with its cache not full
FastDealloc(h, ptr) ==
    /\ RamContains(mm, ptr)
    /\ frames[frame_idx_from_address(mm, ptr)].order = 0
    /\ ~cache_is_full(hart_caches[h])
    /\ DeallocStart(h, ptr)

\* C27: an order-0 alloc that finds the calling hart's cache non-empty and
\* an order-0 dealloc that finds it not full never take the free-lists
\* lock and leave the free lists, the bitmap and every other hart's cache
\* unchanged: they change only the caller's cache and the one frame
C27_CacheFastPathIsLocal ==
    [][\A h \in Harts :
           /\ FastAlloc(h) =>
                  /\ pc'[h] = "finalize"
                  /\ loc'[h].cur = hart_caches[h].head
                  /\ hart_caches'[h].len = hart_caches[h].len - 1
                  /\ LocalTo(h, hart_caches[h].head)
           /\ (pc[h] = "finalize" /\ FinalizeStep(h)) =>
                  /\ pc'[h] = "idle"
                  /\ frame_ref_to_address(mm, loc[h].cur) \in held'
                  /\ hart_caches' = hart_caches
                  /\ LocalTo(h, loc[h].cur)
           /\ \A ptr \in held :
                  FastDealloc(h, ptr) =>
                      /\ pc'[h] = "idle"
                      /\ hart_caches'[h].head = frame_idx_from_address(mm, ptr)
                      /\ hart_caches'[h].len = hart_caches[h].len + 1
                      /\ LocalTo(h, frame_idx_from_address(mm, ptr))]_vars

\* a hart that refilled its cache for its first page is handed its second
\* page from the cache, while the other hart has not touched its own
C27_SecondPageFromCache ==
    \E h \in Harts :
        /\ ~panicked /\ slabs = {} /\ budget = MaxCalls - 2
        /\ pc[h] = "finalize" /\ hart_caches[h].len = 2
        /\ Cardinality(held) = 1
        /\ \A g \in Harts \ {h} : pc[g] = "idle" /\ hart_caches[g].len = 0

\* hart h returns Ok from set in this step
ReturnsOk(h) == oloc'[h].ret = "Ok" /\ oloc[h].ret # "Ok"

\* the cell has one winner: the value is stored, or exactly one hart is
\* between its successful compare_exchange and its write
OneWinner ==
    IF once_inner # NIL THEN \A g \in LockHarts : opc[g] # "set_write"
    ELSE Cardinality({g \in LockHarts : opc[g] = "set_write"}) = 1

\* C28: among the set calls on one cell exactly one returns Ok; every
\* other call returns Err with its own argument; the stored value is the
\* winner's and is never overwritten
C28_SetIsOneShot ==
    [][/\ \A h \in LockHarts :
            /\ ReturnsOk(h) =>
                   /\ once_inner = NIL /\ once_inner' = oloc[h].arg
                   /\ oloc'[h].arg = oloc[h].arg
                   /\ \A g \in LockHarts \ {h} : oloc[g].ret # "Ok"
            /\ \A v \in Vals :
                   (set(h, v) /\ oloc'[h].ret = "Err") => oloc'[h].arg = v
            /\ (SetCas(h) /\ oloc'[h].ret = "Err") => oloc'[h].arg = oloc[h].arg
            /\ oloc'[h].ret = "Err" => initialized' /\ OneWinner'
       /\ once_inner # NIL => once_inner' = once_inner]_vars

\* one hart's set returned Ok, another's returned Err with a different
\* argument of its own, and the cell holds the winner's value
C28_WinnerAndLoser ==
    \E h, g \in LockHarts :
        /\ oloc[h].op = "set" /\ oloc[h].ret = "Ok"
        /\ oloc[g].op = "set" /\ oloc[g].ret = "Err"
        /\ oloc[g].arg # oloc[h].arg
        /\ once_inner = oloc[h].arg

\* C29: among harts calling get_or_init on an uninitialised cell exactly
\* one runs its closure, and every call returns the value that run produced
C29_InitialiserRunsOnce ==
    \A h \in LockHarts :
        /\ opc[h] = "goi_init" =>
               /\ once_inner = NIL
               /\ \A g \in LockHarts \ {h} : opc[g] # "goi_init"
        /\ (oloc[h].op = "get_or_init" /\ oloc[h].ret # "pending") =>
               /\ oloc[h].ret = "Some"
               /\ once_inner # NIL /\ oloc[h].arg = once_inner

\* node is a member of the doubly-linked or of the singly-linked list
IsLinked(node) ==
    node \in Members(frames, lists[0]) \cup CacheMembers(frames, hart_caches[0])

\* a step that inserts node into one of the lists
InsertionOf(node) ==
    \/ DlPushFront(node)
    \/ DlPushBack(node)
    \/ \E current \in Cursors : DlInsertBefore(current, node)
    \/ \E current \in Cursors : DlInsertAfter(current, node)
    \/ \E debug_assertions \in BOOLEAN : SlPushFront(node, debug_assertions)

\* C30: push_front, push_back, insert_before or insert_after of a node
\* that is a member of a list panics and leaves head, tail, length and
\* links of the lists unchanged
C30_LinkedInsertIsFatal ==
    [][\A node \in DOMAIN frames :
           (IsLinked(node) /\ InsertionOf(node)) =>
               panicked' /\ UNCHANGED <<frames, lists, hart_caches>>]_vars

\* calculate has returned a map
Calculated == budget = 0 /\ ~panicked
\* the four regions in their order, and the region before each
LayoutRegions ==
    <<mm.kernel, mm.frame_pool, mm.frame_allocator_metadata, mm.free_memory>>
InRam(region) ==
    region.start >= mm.ram_start
    /\ end_of(region) <= mm.ram_start + mm.ram_size

\* C31: whenever calculate returns, kernel, frame_pool,
\* frame_allocator_metadata and free_memory are contiguous in that order,
\* pairwise disjoint, each a multiple of BASE_SIZE long and inside ram, and
\* free_memory is page-aligned, non-empty and ends at ram.end
C31_LayoutContiguous ==
    Calculated =>
        /\ \A i \in 1 .. 3 :
               LayoutRegions[i + 1].start = end_of(LayoutRegions[i])
        /\ \A i \in 1 .. 4 :
               /\ LayoutRegions[i].size >= 0
               /\ LayoutRegions[i].size % BASE_SIZE = 0
               /\ InRam(LayoutRegions[i])
        /\ mm.free_memory.start % BASE_SIZE = 0
        /\ mm.free_memory.size > 0
        /\ end_of(mm.free_memory) = mm.ram_start + mm.ram_size

\* the blocks handed out: outstanding allocations and slab backing pages,
\* and the frames each of them covers
HandedOut == {<<"alloc", a>> : a \in held} \cup {<<"slab", f>> : f \in slabs}
HandedOutFrames(b) ==
    IF b[1] = "slab" THEN {b[2]}
    ELSE BlockFrames(frame_idx_from_address(mm, b[2]),
                     frames[frame_idx_from_address(mm, b[2])].order)

\* C32: the page ranges of the blocks currently handed out are pairwise
\* disjoint and each lies inside free_memory
C32_NoDoubleAllocation ==
    ~panicked =>
        /\ \A b \in HandedOut : HandedOutFrames(b) \subseteq FreeFrames
        /\ \A b, c \in HandedOut :
               b # c => HandedOutFrames(b) \cap HandedOutFrames(c) = {}

\* hart h is inside the loop of free_to_global and its next iteration
\* calls remove_frame on the buddy of its current block
SelectsBuddy(h) ==
    /\ ~panicked /\ pc[h] = "ftg" /\ loc[h].order < Orders(mm) - 1
    /\ RamContains(mm, BuddyOf(loc[h].cur, loc[h].order))
    /\ is_free(frames[frame_idx_from_address(
                          mm, BuddyOf(loc[h].cur, loc[h].order))])
    /\ frames[frame_idx_from_address(
                  mm, BuddyOf(loc[h].cur, loc[h].order))].order = loc[h].order
SelectedBuddy(h) ==
    frame_idx_from_address(mm, BuddyOf(loc[h].cur, loc[h].order))

\* C33: the buddy that free_to_global unlinks is a member of
\* free_lists[order]: never a frame held in a hart's cache, never the frame
\* a dealloc is about to push into the cache
C33_CoalescingUnlinksMembers ==
    \A h \in Harts :
        SelectsBuddy(h) =>
            /\ SelectedBuddy(h) \in FreeListMembers(loc[h].order)
            /\ \A i \in Harts :
                   /\ SelectedBuddy(h) \notin
                          CacheMembers(frames, hart_caches[i])
                   /\ SelectedBuddy(h) # loc[i].pending

\* the slots of slab f that are in some hart's cache, on the free chain of
\* the slab, or with a caller
SlotsOfChain(chain) == {chain[i] : i \in 1 .. Len(chain)}
SlotsInCaches(f) ==
    UNION {SlotsOfChain(slot_caches[slab_info[f].cache][h]) : h \in Harts}
        \cap SlabSlots(f)
AccountedSlots(f) ==
    SlotsInCaches(f) \cup SlotsOfChain(slab_info[f].next_slot) \cup HeldOf(f)

\* C34: every slot of every slab is in a hart's cache, on the free chain
\* of its slab or held by a caller: no dealloc loses the slot it is given
C34_NoSlotLost ==
    ~panicked => \A f \in slabs : AccountedSlots(f) = SlabSlots(f)

\* C35: every block on a free list lies inside free_memory, and no frame
\* of the kernel, the frame pool or the allocator metadata is chosen as a
\* coalescing buddy
C35_FreeBlocksInsidePool ==
    /\ \A k \in DOMAIN lists : \A f \in FreeListMembers(k) :
           BlockFrames(f, k) \subseteq FreeFrames
    /\ \A h \in Harts : SelectsBuddy(h) => SelectedBuddy(h) \in FreeFrames

\* hart h is about to translate a buddy address to a frame
TranslatesBuddy(h) ==
    ~panicked /\ pc[h] = "ftg" /\ loc[h].order < Orders(mm) - 1

\* C36: dealloc of a block that alloc returned and that was not freed
\* since completes without panic, whatever whole number of pages the RAM
\* has; every buddy address free_to_global translates lies inside ram
C36_DeallocNeverPanics ==
    [][\A h \in Harts :
           /\ (\E ptr \in held : DeallocStart(h, ptr)) => ~panicked'
           /\ FtgStep(h) =>
                  /\ ~panicked'
                  /\ TranslatesBuddy(h) =>
                         RamContains(mm, BuddyOf(loc[h].cur, loc[h].order))]_vars


\* ------------------------------------------------ lock order of the allocator
\* The allocator seen through its spinlocks only: a lock section is the
\* sequence of lock() calls and guard drops a hart performs from the moment it
\* owns no guard until it owns none again.
Lk(l) == <<[op |-> "lock", l |-> l]>>
Ul(l) == <<[op |-> "unlock", l |-> l]>>

RECURSIVE Repeat(_, _)
Repeat(section, n) == IF n = 0 THEN <<>> ELSE section \o Repeat(section, n - 1)

\* most iterations of a loop that locks in its body
MaxLockLoop == 2

\* prepare_block: the free_lists guard lives until the function returns
prepare_block_locks == Lk(FREE_LISTS) \o Ul(FREE_LISTS)

\* free_to_global: the free_lists guard lives until the function returns
free_to_global_locks == Lk(FREE_LISTS) \o Ul(FREE_LISTS)

\* get_from_cache behind alloc_slab and an order-0 alloc: n prepare_block
\* calls refill an empty cache, none is made when the cache holds a frame
alloc_slab_locks(n) == Repeat(prepare_block_locks, n)

\* FrameAllocator::dealloc: n free_to_global calls (one for a block of order
\* above 0, drain_amount for a full cache, none when the frame is parked)
frame_dealloc_locks(n) == Repeat(free_to_global_locks, n)

\* the drain closure of SizeClassManager::dealloc taking the list lock before
\* the slab info lock
drain_slot_locks_lists_first(class, slab, outcome, n) ==
    Lk(PARTIAL_SLABS(class)) \o Lk(SLAB_INFO(slab))
        \o Ul(SLAB_INFO(slab)) \o Ul(PARTIAL_SLABS(class))

\* the drain closure of SizeClassManager::dealloc for one slot: slab_info is
\* locked first and dropped last; outcome is the branch the counters select
drain_slot_locks(class, slab, outcome, n) ==
    Lk(SLAB_INFO(slab))
    \o (CASE outcome = "was_full" ->
                Lk(PARTIAL_SLABS(class)) \o Ul(PARTIAL_SLABS(class))
          [] outcome = "now_empty" ->
                Lk(PARTIAL_SLABS(class)) \o Ul(PARTIAL_SLABS(class))
                    \o Lk(EMPTY_SLABS(class)) \o Ul(EMPTY_SLABS(class))
          [] outcome = "evict" ->
                Lk(PARTIAL_SLABS(class)) \o Ul(PARTIAL_SLABS(class))
                    \o Lk(EMPTY_SLABS(class)) \o Ul(EMPTY_SLABS(class))
                    \o frame_dealloc_locks(n)
          [] OTHER -> <<>>)
    \o Ul(SLAB_INFO(slab))

\* the if / else-if / else chain of refill_hart_cache that finds the slab to
\* process. if_let_rescope is the edition's rule for the guards created in the
\* conditions: dropped before the else branch runs, or kept until the whole
\* chain has been evaluated
next_slab_locks(class, from, n, if_let_rescope) ==
    CASE from = "partial" ->
            Lk(PARTIAL_SLABS(class)) \o Ul(PARTIAL_SLABS(class))
      [] from = "empty" /\ if_let_rescope ->
            Lk(PARTIAL_SLABS(class)) \o Ul(PARTIAL_SLABS(class))
                \o Lk(EMPTY_SLABS(class)) \o Ul(EMPTY_SLABS(class))
      [] from = "empty" /\ ~if_let_rescope ->
            Lk(PARTIAL_SLABS(class)) \o Lk(EMPTY_SLABS(class))
                \o Ul(EMPTY_SLABS(class)) \o Ul(PARTIAL_SLABS(class))
      [] from \in {"new", "none"} /\ if_let_rescope ->
            Lk(PARTIAL_SLABS(class)) \o Ul(PARTIAL_SLABS(class))
                \o Lk(EMPTY_SLABS(class)) \o Ul(EMPTY_SLABS(class))
                \o alloc_slab_locks(n)
      [] OTHER ->
            Lk(PARTIAL_SLABS(class)) \o Lk(EMPTY_SLABS(class))
                \o alloc_slab_locks(n)
                \o Ul(EMPTY_SLABS(class)) \o Ul(PARTIAL_SLABS(class))

\* the rest of one iteration of refill_hart_cache's outer loop: the slab info
\* is locked, slots move to the cache, the slab goes back to partial_slabs
\* when it has slots left, and the slab info guard is dropped last
refill_slab_locks(class, slab, slots_left) ==
    Lk(SLAB_INFO(slab))
    \o (IF slots_left
        THEN Lk(PARTIAL_SLABS(class)) \o Ul(PARTIAL_SLABS(class)) ELSE <<>>)
    \o Ul(SLAB_INFO(slab))

\* one iteration of refill_hart_cache's outer loop; from = "none" is
\* create_new_slab failing, which returns from the function
refill_hart_cache_locks(class, slab, from, n, slots_left, if_let_rescope) ==
    next_slab_locks(class, from, n, if_let_rescope)
    \o (IF from = "none" THEN <<>> ELSE refill_slab_locks(class, slab, slots_left))

SlabSources == {"partial", "empty", "new", "none"}
DrainOutcomes == {"was_full", "now_empty", "evict", "still_partial"}

\* every lock section of slab alloc / dealloc and buddy alloc / dealloc
LockSections ==
    {refill_hart_cache_locks(c, f, from, IF from \in {"new", "none"} THEN n ELSE 0,
                             left, r) :
        c \in LockClasses, f \in LockSlabs, from \in SlabSources,
        n \in 0 .. MaxLockLoop, left \in BOOLEAN, r \in BOOLEAN}
    \cup {drain_slot_locks(c, f, o, IF o = "evict" THEN n ELSE 0) :
            c \in LockClasses, f \in LockSlabs, o \in DrainOutcomes,
            n \in 0 .. MaxLockLoop}
    \cup {alloc_slab_locks(n) : n \in 1 .. MaxLockLoop}
    \cup {frame_dealloc_locks(n) : n \in 1 .. MaxLockLoop}

LockSet(ownersv, todov) ==
    /\ owners' = ownersv
    /\ lock_todo' = todov
    /\ UNCHANGED <<guards, lpc, inner>>
    /\ UNCHANGED <<allocVars, onceVars, slabVars>>

\* hart h, owning no guard, reaches the next lock section of the call it runs
EnterSection(h, section) ==
    /\ lock_todo[h] = <<>>
    /\ section # <<>>
    /\ LockSet(owners, [lock_todo EXCEPT ![h] = section])

NextLockOp(h) == Head(lock_todo[h])

\* Spinlock::lock: the compare_exchange succeeds and the guard is returned
LockReturns(h) ==
    /\ lock_todo[h] # <<>>
    /\ NextLockOp(h).op = "lock"
    /\ compare_exchange(owners[NextLockOp(h).l] # NIL, FALSE, TRUE).ok
    /\ LockSet([owners EXCEPT ![NextLockOp(h).l] = h],
               [lock_todo EXCEPT ![h] = Tail(lock_todo[h])])

\* Spinlock::lock: the compare_exchange fails, spin_loop, try again
LockSpins(h) ==
    /\ lock_todo[h] # <<>>
    /\ NextLockOp(h).op = "lock"
    /\ ~compare_exchange(owners[NextLockOp(h).l] # NIL, FALSE, TRUE).ok
    /\ LockSet(owners, lock_todo)

\* SpinlockGuard::drop: unlock stores false
GuardDrop(h) ==
    /\ lock_todo[h] # <<>>
    /\ NextLockOp(h).op = "unlock"
    /\ LockSet([owners EXCEPT ![NextLockOp(h).l] = NIL],
               [lock_todo EXCEPT ![h] = Tail(lock_todo[h])])

InitLocks == InitAlloc(MemoryMap(RamOrder, 4), 0)

NextLocks ==
    \/ \E h \in Harts, section \in LockSections : EnterSection(h, section)
    \/ \E h \in Harts : LockReturns(h)
    \/ \E h \in Harts : LockSpins(h)
    \/ \E h \in Harts : GuardDrop(h)

SpecLocks == InitLocks /\ [][NextLocks]_vars

\* every hart keeps executing: a guard that is due to be dropped is dropped,
\* and a hart retrying its compare_exchange on a flag that is false again and
\* again eventually wins it
SpecLocksFair ==
    /\ SpecLocks
    /\ \A h \in Harts : WF_vars(GuardDrop(h)) /\ SF_vars(LockReturns(h))

\* hart h is inside lock() on spinlock l
Spins(h, l) ==
    /\ lock_todo[h] # <<>>
    /\ NextLockOp(h).op = "lock"
    /\ NextLockOp(h).l = l

\* the hart owning the guard of the spinlock hart h is inside lock() on
Blocker(h) ==
    IF lock_todo[h] # <<>> /\ NextLockOp(h).op = "lock"
    THEN owners[NextLockOp(h).l] ELSE NIL

\* following the blockers from h for more than n steps never reaches a hart
\* that is not blocked: with n = NumHarts the chain went round a cycle
RECURSIVE Stuck(_, _)
Stuck(h, n) ==
    IF Blocker(h) = NIL THEN FALSE
    ELSE IF n = 0 THEN TRUE
    ELSE Stuck(Blocker(h), n - 1)

NoWaitCycle == \A h \in Harts : ~Stuck(h, NumHarts)

SlabAllocFailed ==
    /\ ~panicked
    /\ kret.op = "alloc" /\ kret.ready /\ kret.class # NIL /\ kret.ptr = NIL

\* the slabs on partial_slabs or empty_slabs of class c with a free slot
ListedFreeSlabs(c) ==
    {f \in Members(frames, partial_slabs[c]) \cup Members(frames, empty_slabs[c]) :
        slab_info[f].next_slot # <<>>}

\* C38: a slab alloc fails only when nothing is available: when
\* SizeClassManager::alloc returned None the caller's slot cache is empty,
\* no slab on partial_slabs or empty_slabs has a free slot and the frame
\* allocator could not supply a page; slots a refill obtained before it ran
\* out of pages are still handed out.
C38_FailsOnlyWhenExhausted ==
    SlabAllocFailed =>
        /\ slot_caches[kret.class][kret.hart] = <<>>
        /\ ListedFreeSlabs(kret.class) = {}
        /\ kret.oom


\* hart h is in the drain loop of dealloc: loc[h].pending is the freed frame,
\* loc[h].drain the number of frames still to pop
Draining(h) == pc[h] \in {"ftg_lock", "ftg"} /\ loc[h].pending # NIL

\* the frames the loop has popped so far, given the cache was full
PoppedSoFar(h) ==
    quartering_drain_amount(hart_caches[h].target_size,
                            hart_caches[h].target_size) - loc[h].drain

\* C39: an order-0 dealloc into a full frame cache pops exactly
\* drain_amount = min(len, target_size / 4) frames from the calling hart's
\* cache and releases them through free_to_global, and pushes the freed
\* frame only then: while the loop runs the cache has lost the popped
\* frames and no other, and does not hold the freed frame yet; a cache
\* never holds more than target_size frames.
C39_DrainThenPush ==
    ~panicked => \A h \in Harts :
        /\ hart_caches[h].len <= hart_caches[h].target_size
        /\ Cardinality(CacheMembers(frames, hart_caches[h]))
               <= hart_caches[h].target_size
        /\ Draining(h) =>
             /\ hart_caches[h].len
                    = hart_caches[h].target_size - PoppedSoFar(h)
             /\ Cardinality(CacheMembers(frames, hart_caches[h]))
                    = hart_caches[h].len
             /\ loc[h].pending \notin CacheMembers(frames, hart_caches[h])


\* the bitmaps find_first_set_from is tried on: every value of the low
\* BitmapBits bits, and values with bits up to MaxRequestedOrder set
BitmapBits == 7
MaxRequestedOrder == 30
Bitmaps == 0 .. (Pow2(BitmapBits) - 1)
           \cup {Pow2(MaxRequestedOrder), Pow2(MaxRequestedOrder) + 1,
                 Pow2(MaxRequestedOrder) + Pow2(MaxRequestedOrder - 1),
                 Pow2(MaxRequestedOrder - 1) + Pow2(BitmapBits)}
RequestedOrders == 0 .. MaxRequestedOrder

\* the smallest order j >= k with bit j of b set, NIL when there is none
SmallestSetFrom(b, k) ==
    IF \A j \in k .. MaxRequestedOrder : ~TestBit(b, j) THEN NIL
    ELSE CHOOSE j \in k .. MaxRequestedOrder :
             TestBit(b, j) /\ \A i \in k .. (j - 1) : ~TestBit(b, i)

\* the smallest order j >= k whose free list has a member, NIL when none has
SmallestNonEmptyFrom(k) ==
    IF \A j \in DOMAIN lists : j >= k => FreeListMembers(j) = {} THEN NIL
    ELSE CHOOSE j \in DOMAIN lists :
             /\ j >= k /\ FreeListMembers(j) # {}
             /\ \A i \in DOMAIN lists : (i >= k /\ i < j) => FreeListMembers(i) = {}

\* r is what prepare_block(k) returns when find_first_free_from(k) is j
BestFitSplit(k, j, r) ==
    IF j = NIL THEN r.node = NIL /\ r.M = Mem
    ELSE /\ r.node = lists[j].head
         /\ ~r.M.panic
         /\ r.M.frames[r.node].order = k
         /\ \A i \in DOMAIN lists :
              Members(r.M.frames, r.M.lists[i]) =
                  IF i = j THEN FreeListMembers(j) \ {r.node}
                  ELSE IF i >= k /\ i < j
                  THEN FreeListMembers(i) \cup {r.node + Pow2(i)}
                  ELSE FreeListMembers(i)
         /\ \A i \in DOMAIN lists :
              (i >= k /\ i < j) => r.M.frames[r.node + Pow2(i)].order = i

\* find_first_set_from on every bitmap of Bitmaps and every requested order:
\* the smallest order j >= k whose bit is set, None when there is none
FindFirstSetIsSmallest ==
    \A b \in Bitmaps : \A k \in RequestedOrders :
        find_first_set_from(b, k) = SmallestSetFrom(b, k)

\* C40: best-fit block selection. With the free-lists lock free, for every
\* requested order k find_first_free_from(k) is the smallest order j >= k
\* whose free list is non-empty, and None when there is none; prepare_block(k)
\* takes the head of free_lists[j], returns it as the lowest-addressed
\* order-k sub-block and pushes exactly one upper-half block onto each of
\* free_lists[k .. j-1].
C40_BestFit ==
    (~panicked /\ ~locked) =>
        \A k \in DOMAIN lists :
            /\ find_first_free_from(Mem, k) = SmallestNonEmptyFrom(k)
            /\ BestFitSplit(k, find_first_free_from(Mem, k), prepare_block(Mem, k))

====
